---- MODULE Spec2Model ----
(***************************************************************************)
(* Model of the ignore-pattern subsystem of fsvs (src/src/ignore.c) and of *)
(* the add/unversion action (src/src/add_unvers.c).                        *)
(*                                                                         *)
(* C strings are sequences of one-character strings.  The NUL byte and the *)
(* newline are the tokens NUL and LF.  A pointer into a buffer is a        *)
(* 1-based index into the sequence; memory that follows a mapped file is   *)
(* zero-filled (mmap pads the last page with zero bytes).                  *)
(***************************************************************************)
EXTENDS Integers, Sequences, FiniteSets, TLC

NUL == "NUL"
LF  == "LF"
BSL == "\\"
PATH_SEPARATOR == "/"

Digits == <<"0", "1", "2", "3", "4", "5", "6", "7", "8", "9">>
Lower  == <<"a", "b", "c", "d", "e", "f", "g", "h", "i", "j", "k", "l", "m",
            "n", "o", "p", "q", "r", "s", "t", "u", "v", "w", "x", "y", "z">>
Upper  == <<"A", "B", "C", "D", "E", "F", "G", "H", "I", "J", "K", "L", "M",
            "N", "O", "P", "Q", "R", "S", "T", "U", "V", "W", "X", "Y", "Z">>

Range(f) == {f[i] : i \in DOMAIN f}

\* the element of a one-element set: The({f(x) : x \in {e}}) is f of the
\* value of e, which is computed once
The(S) == CHOOSE r \in S : TRUE
Min(a, b) == IF a < b THEN a ELSE b

IsDigit(c) == c \in Range(Digits)
IsAlpha(c) == c \in Range(Lower) \cup Range(Upper)
IsAlnum(c) == IsDigit(c) \/ IsAlpha(c)
\* isspace() in the C locale
IsSpace(c) == c \in {" ", LF, "TAB", "CR", "VT", "FF"}

DigitVal(c) == CHOOSE v \in 0..9 : Digits[v + 1] = c
ToLower(c) == IF c \in Range(Upper)
              THEN Lower[CHOOSE k \in 1..26 : Upper[k] = c]
              ELSE c

\* s[i], with the terminating NUL (and zero padding) behind the last char
At(s, i) == IF i >= 1 /\ i <= Len(s) THEN s[i] ELSE NUL

\* the tail of s that starts at index i
From(s, i) == IF i > Len(s) THEN <<>> ELSE SubSeq(s, i, Len(s))

\* strlen() of the C string that starts at index p of the buffer mem
RECURSIVE StrLenAt(_, _)
StrLenAt(mem, p) == IF At(mem, p) = NUL THEN 0 ELSE 1 + StrLenAt(mem, p + 1)

\* the C string that starts at index p of the buffer mem
CStr(mem, p) == SubSeq(mem, p, p + StrLenAt(mem, p) - 1)

\* strncmp(prefix, s + i - 1, strlen(prefix)) == 0
HasPrefixAt(s, i, prefix) ==
  \A k \in 1..Len(prefix) : At(s, i + k - 1) = prefix[k]

\* number of PATH_SEPARATORs in s, the strchr() loop of ign___init_pattern_into
RECURSIVE CountSep(_)
CountSep(s) == IF s = <<>> THEN 0
               ELSE (IF Head(s) = PATH_SEPARATOR THEN 1 ELSE 0) + CountSep(Tail(s))

(***************************************************************************)
(* Pattern Compiler: translation of a shell pattern into a PCRE source.    *)
(***************************************************************************)
PT_SHELL  == "PT_SHELL"
PT_PCRE   == "PT_PCRE"
PT_DEVICE == "PT_DEVICE"
PT_INODE  == "PT_INODE"

\* One iteration of the do-while loop of ign___translate_bracketed_expr and,
\* while its condition holds, the following ones.  i is *src, out is the
\* destination written so far, len the size of the destination buffer.
\* the body of one iteration: what it appends, and the new pos/backslashed
BracketStep(c, out, pos, backslashed) ==
  IF backslashed
    THEN [out |-> Append(out, c), pos |-> pos, bs |-> FALSE]
  ELSE IF pos = 0 /\ c \in {"!", "^"}
    THEN [out |-> Append(out, "^"), pos |-> pos, bs |-> FALSE]
  ELSE [out |-> Append(out, c),
        pos |-> IF c = "]" /\ pos > 0 THEN -1 ELSE pos + 1,
        bs  |-> (c = BSL)]

RECURSIVE BracketLoop(_, _, _, _, _, _)
BracketLoop(s, i, out, pos, backslashed, len) ==
  The({(IF len - Len(step.out) < 5
      THEN [status |-> "ENOSPC", i |-> i + 1, out |-> step.out]
    ELSE IF At(s, i + 1) # NUL /\ step.pos >= 0
      THEN BracketLoop(s, i + 1, step.out, step.pos, step.bs, len)
    ELSE [status |-> "OK", i |-> i + 1, out |-> step.out])
        : step \in {BracketStep(At(s, i), out, pos, backslashed)}})

ign___translate_bracketed_expr(s, i, out, len) ==
  IF At(s, i) # "["
    THEN [status |-> "EINVAL", i |-> i, out |-> out]
    ELSE BracketLoop(s, i, out, -1, FALSE, len)

\* index of the first character at or behind i that is not a "*"
RECURSIVE SkipStars(_, _)
SkipStars(s, i) == IF At(s, i) = "*" THEN SkipStars(s, i + 1) ELSE i

\* the loop body with "*" translated like "**"
ShellStep_any(s, i, out, backslashed, wild, len) ==
  The({(IF backslashed
      THEN [status |-> "OK", i |-> i + 1, out |-> Append(out, c),
            bs |-> FALSE, wild |-> wild]
    ELSE IF c = "*" /\ At(s, i + 1) = "*"
      THEN [status |-> "OK", i |-> SkipStars(s, i), out |-> out \o <<".", "*">>,
            bs |-> FALSE, wild |-> TRUE]
    ELSE IF c = "*"
      THEN [status |-> "OK", i |-> i + 1,
            out |-> out \o <<".", "*">>,
            bs |-> FALSE, wild |-> wild]
    ELSE IF c = "?"
      THEN [status |-> "OK", i |-> i + 1, out |-> Append(out, "."),
            bs |-> FALSE, wild |-> wild]
    ELSE IF c = "["
      THEN The({([status |-> br.status, i |-> br.i, out |-> br.out,
              bs |-> FALSE, wild |-> wild])
        : br \in {ign___translate_bracketed_expr(s, i, out, len)}})
    ELSE IF IsAlnum(c) \/ c = "/" \/ c = "-"
      THEN [status |-> "OK", i |-> i + 1, out |-> Append(out, c),
            bs |-> FALSE, wild |-> wild]
    ELSE IF c = BSL
      THEN [status |-> "OK", i |-> i + 1, out |-> Append(out, c),
            bs |-> TRUE, wild |-> wild]
    ELSE [status |-> "OK", i |-> i + 1, out |-> out \o <<BSL, c>>,
          bs |-> FALSE, wild |-> wild])
        : c \in {At(s, i)}})

\* the loop body with "**" translated like "*"
ShellStep_flat(s, i, out, backslashed, wild, len) ==
  The({(IF backslashed
      THEN [status |-> "OK", i |-> i + 1, out |-> Append(out, c),
            bs |-> FALSE, wild |-> wild]
    ELSE IF c = "*" /\ At(s, i + 1) = "*"
      THEN [status |-> "OK", i |-> SkipStars(s, i),
            out |-> out \o <<"[", "^", PATH_SEPARATOR, "]", "*">>,
            bs |-> FALSE, wild |-> TRUE]
    ELSE IF c = "*"
      THEN [status |-> "OK", i |-> i + 1,
            out |-> out \o <<"[", "^", PATH_SEPARATOR, "]", "*">>,
            bs |-> FALSE, wild |-> wild]
    ELSE IF c = "?"
      THEN [status |-> "OK", i |-> i + 1, out |-> Append(out, "."),
            bs |-> FALSE, wild |-> wild]
    ELSE IF c = "["
      THEN The({([status |-> br.status, i |-> br.i, out |-> br.out,
              bs |-> FALSE, wild |-> wild])
        : br \in {ign___translate_bracketed_expr(s, i, out, len)}})
    ELSE IF IsAlnum(c) \/ c = "/" \/ c = "-"
      THEN [status |-> "OK", i |-> i + 1, out |-> Append(out, c),
            bs |-> FALSE, wild |-> wild]
    ELSE IF c = BSL
      THEN [status |-> "OK", i |-> i + 1, out |-> Append(out, c),
            bs |-> TRUE, wild |-> wild]
    ELSE [status |-> "OK", i |-> i + 1, out |-> out \o <<BSL, c>>,
          bs |-> FALSE, wild |-> wild])
        : c \in {At(s, i)}})

\* The body of one iteration of the do-while loop of ign__compile_pattern.
ShellStep(s, i, out, backslashed, wild, len) ==
  The({(IF backslashed
      THEN [status |-> "OK", i |-> i + 1, out |-> Append(out, c),
            bs |-> FALSE, wild |-> wild]
    ELSE IF c = "*" /\ At(s, i + 1) = "*"
      THEN [status |-> "OK", i |-> SkipStars(s, i), out |-> out \o <<".", "*">>,
            bs |-> FALSE, wild |-> TRUE]
    ELSE IF c = "*"
      THEN [status |-> "OK", i |-> i + 1,
            out |-> out \o <<"[", "^", PATH_SEPARATOR, "]", "*">>,
            bs |-> FALSE, wild |-> wild]
    ELSE IF c = "?"
      THEN [status |-> "OK", i |-> i + 1, out |-> Append(out, "."),
            bs |-> FALSE, wild |-> wild]
    ELSE IF c = "["
      THEN The({([status |-> br.status, i |-> br.i, out |-> br.out,
              bs |-> FALSE, wild |-> wild])
        : br \in {ign___translate_bracketed_expr(s, i, out, len)}})
    ELSE IF IsAlnum(c) \/ c = "/" \/ c = "-"
      THEN [status |-> "OK", i |-> i + 1, out |-> Append(out, c),
            bs |-> FALSE, wild |-> wild]
    ELSE IF c = BSL
      THEN [status |-> "OK", i |-> i + 1, out |-> Append(out, c),
            bs |-> TRUE, wild |-> wild]
    ELSE [status |-> "OK", i |-> i + 1, out |-> out \o <<BSL, c>>,
          bs |-> FALSE, wild |-> wild])
        : c \in {At(s, i)}})

\* The do-while loop of ign__compile_pattern over the shell pattern s.
RECURSIVE ShellLoop(_, _, _, _, _, _)
ShellLoop(s, i, out, backslashed, wild, len) ==
  The({(IF step.status # "OK"
      THEN [status |-> step.status, i |-> step.i, out |-> step.out, wild |-> step.wild]
    ELSE IF len - Len(step.out) < 11
      THEN [status |-> "ENOSPC", i |-> step.i, out |-> step.out, wild |-> step.wild]
    ELSE IF At(s, step.i) # NUL
      THEN ShellLoop(s, step.i, step.out, step.bs, step.wild, len)
    ELSE [status |-> "OK", i |-> step.i, out |-> step.out, wild |-> step.wild])
        : step \in {ShellStep(s, i, out, backslashed, wild, len)}})

\* the translation into a buffer of strlen(pattern) + 16 bytes
TranslateShell_small(s, patlen) ==
  The({(IF r.status # "OK" THEN [status |-> r.status, re |-> r.out, wild |-> r.wild]
    ELSE [status |-> "OK", re |-> Append(r.out, "$"), wild |-> r.wild])
        : r \in {ShellLoop(s, 1, <<>>, FALSE, FALSE, patlen + 16)}})

\* The PT_SHELL branch of ign__compile_pattern: the translated source, with
\* the end anchor.  s is ignore->compare_string, patlen is strlen(ignore->pattern).
TranslateShell(s, patlen) ==
  The({(IF r.status # "OK" THEN [status |-> r.status, re |-> r.out, wild |-> r.wild]
    ELSE IF r.i = 1 THEN [status |-> "OK", re |-> r.out, wild |-> r.wild]
    ELSE IF At(s, r.i - 1) = PATH_SEPARATOR
      THEN [status |-> "OK",
            re |-> [r.out EXCEPT ![Len(r.out)] = "("]
                     \o <<"$", "|", PATH_SEPARATOR, ")">>,
            wild |-> r.wild]
    ELSE [status |-> "OK", re |-> Append(r.out, "$"), wild |-> r.wild])
        : r \in {ShellLoop(s, 1, <<>>, FALSE, FALSE, patlen * 5 + 16)}})

(***************************************************************************)
(* The regular expression engine behind pcre_compile() and pcre_exec(),    *)
(* for the part of the PCRE syntax that the translation above produces:    *)
(* literals, \c, ".", bracket classes with ranges and negation, the "*"    *)
(* quantifier on a one-character element, "$", and one level of            *)
(* "(a|b)" groups.  Patterns are compiled PCRE_ANCHORED | PCRE_DOTALL:     *)
(* a match starts at the first character of the subject and need not       *)
(* reach its end; PCRE_UNGREEDY changes which match is found, not whether  *)
(* one exists.                                                             *)
(***************************************************************************)
\* ASCII code of a letter or digit (ranges in classes compare codes)
Ord(c) == IF IsDigit(c) THEN 48 + DigitVal(c)
          ELSE IF c \in Range(Upper) THEN 64 + (CHOOSE k \in 1..26 : Upper[k] = c)
          ELSE IF c \in Range(Lower) THEN 96 + (CHOOSE k \in 1..26 : Lower[k] = c)
          ELSE 0

\* first index >= k of an unescaped "]" in re, 0 if there is none
RECURSIVE ClassScan(_, _)
ClassScan(re, k) ==
  IF k > Len(re) THEN 0
  ELSE IF re[k] = "]" THEN k
  ELSE IF re[k] = BSL THEN ClassScan(re, k + 2)
  ELSE ClassScan(re, k + 1)

\* re[i] = "[": index of the first content character (behind a negating "^")
ClassStart(re, i) == IF At(re, i + 1) = "^" THEN i + 2 ELSE i + 1

\* re[i] = "[": index of the "]" that closes the class, 0 if it is not closed.
\* A "]" that is the first content character is a literal.
ClassEnd(re, i) ==
  LET k == ClassStart(re, i)
  IN  IF At(re, k) = "]" THEN ClassScan(re, k + 1) ELSE ClassScan(re, k)

\* does the class content re[a..b] name the character c
RECURSIVE ClassHas(_, _, _, _)
ClassHas(re, a, b, c) ==
  IF a > b THEN FALSE
  ELSE IF re[a] = BSL /\ a < b
    THEN re[a + 1] = c \/ ClassHas(re, a + 2, b, c)
  ELSE IF a + 2 <= b /\ re[a + 1] = "-"
    THEN (Ord(c) # 0 /\ Ord(re[a]) <= Ord(c) /\ Ord(c) <= Ord(re[a + 2]))
         \/ ClassHas(re, a + 3, b, c)
  ELSE re[a] = c \/ ClassHas(re, a + 1, b, c)

\* the other-case twin of a letter
ToUpper(c) == IF c \in Range(Lower)
              THEN Upper[CHOOSE k \in 1..26 : Lower[k] = c]
              ELSE c

\* re[i] starts a one-character element that ends before index e:
\* does it accept the subject character c
ElemAccepts(re, i, e, c, icase) ==
  LET r0 == re[i]
      inClass(x) == ClassHas(re, ClassStart(re, i), e - 2, x)
      hit == IF icase THEN inClass(ToLower(c)) \/ inClass(ToUpper(c)) ELSE inClass(c)
  IN  IF r0 = "." THEN TRUE
      ELSE IF r0 = "[" THEN (IF At(re, i + 1) = "^" THEN ~hit ELSE hit)
      ELSE IF r0 = BSL /\ re[i + 1] = "d" THEN IsDigit(c)
      ELSE LET lit == IF r0 = BSL THEN re[i + 1] ELSE r0
           IN  IF icase THEN ToLower(lit) = ToLower(c) ELSE lit = c

\* index behind the element that starts at re[i]; 0 if the element is broken
ElemEnd(re, i) ==
  IF re[i] = BSL THEN (IF i + 1 <= Len(re) THEN i + 2 ELSE 0)
  ELSE IF re[i] = "[" THEN (IF ClassEnd(re, i) = 0 THEN 0 ELSE ClassEnd(re, i) + 1)
  ELSE i + 1

\* first index >= k of a ")" in re, 0 if there is none
RECURSIVE GroupScan(_, _)
GroupScan(re, k) ==
  IF k > Len(re) THEN 0
  ELSE IF re[k] = ")" THEN k
  ELSE IF re[k] = BSL THEN GroupScan(re, k + 2)
  ELSE GroupScan(re, k + 1)

\* index of the first "|" of body at or behind k, 0 if there is none
RECURSIVE BarScan(_, _)
BarScan(body, k) ==
  IF k > Len(body) THEN 0
  ELSE IF body[k] = "|" THEN k
  ELSE BarScan(body, k + 1)

\* the alternatives of a group content, split at "|"
RECURSIVE Alts(_)
Alts(body) ==
  The({(IF k = 0 THEN {body}
    ELSE {SubSeq(body, 1, k - 1)}
           \cup The({(Alts(rest))
        : rest \in {From(body, k + 1)}}))
        : k \in {BarScan(body, 1)}})

\* pcre_compile(): is re a well-formed source
RECURSIVE ReValid(_, _, _)
ReValid(re, i, prev) ==
  IF i > Len(re) THEN TRUE
  ELSE IF re[i] = "*" THEN prev /\ ReValid(re, i + 1, FALSE)
  ELSE IF re[i] = ")" THEN FALSE
  ELSE IF re[i] = "("
    THEN The({(/\ e # 0
           /\ \A a \in Alts(SubSeq(re, i + 1, e - 1)) : ReValid(a, 1, FALSE)
           /\ ReValid(re, e + 1, FALSE))
        : e \in {GroupScan(re, i + 1)}})
  ELSE The({(e # 0 /\ ReValid(re, e, TRUE))
        : e \in {ElemEnd(re, i)}})

pcre_compile(re) == ReValid(re, 1, FALSE)

\* does re, from index i on, match the subject s from index j on
RECURSIVE ReMatch(_, _, _, _, _)
ReMatch(re, i, s, j, icase) ==
  IF i > Len(re) THEN TRUE
  ELSE IF re[i] = "$"
    THEN /\ (j = Len(s) + 1 \/ (j = Len(s) /\ s[j] = LF))
         /\ ReMatch(re, i + 1, s, j, icase)
  ELSE IF re[i] = "("
    THEN The({(\E a \in Alts(SubSeq(re, i + 1, e - 1)) :
             The({(ReMatch(rest, 1, s, j, icase))
        : rest \in {a \o From(re, e + 1)}}))
        : e \in {GroupScan(re, i + 1)}})
  ELSE The({(The({(IF At(re, e) = "*"
             THEN ReMatch(re, e + 1, s, j, icase)
                  \/ (ok /\ ReMatch(re, i, s, j + 1, icase))
             ELSE ok /\ ReMatch(re, e, s, j + 1, icase))
        : ok \in {j <= Len(s) /\ ElemAccepts(re, i, e, s[j], icase)}}))
        : e \in {ElemEnd(re, i)}})

\* pcre_exec(compiled, extra, subject, len, 0, 0, NULL, 0) == 0
pcre_exec(re, icase, subject) == ReMatch(re, 1, subject, 1, icase)

(***************************************************************************)
(* Pattern Compiler: ign___init_pattern_into and ign__compile_pattern.     *)
(* An ignore_t is a record; a slot of ignore_list that was never written   *)
(* is UninitIgnore.  A failing call leaves the fields it wrote before the  *)
(* failure in the slot, as the C code does.                                *)
(***************************************************************************)
PAT_DEV__UNSPECIFIED == 0
PAT_DEV__LESS        == 1
PAT_DEV__EQUAL       == 2
PAT_DEV__GREATER     == 4

\* a | b for the three comparator bits
BitOr(a, b) ==
  LET has(x, bit) == (x \div bit) % 2 = 1
      or(bit) == IF has(a, bit) \/ has(b, bit) THEN bit ELSE 0
  IN  or(1) + or(2) + or(4)

\* the value of a field of realloc()ed memory that was never written
Unset == -1

UninitIgnore ==
  [pattern |-> <<"?">>, is_ignore |-> Unset, is_icase |-> Unset, type |-> "?",
   compare_string |-> <<"?">>, compare |-> Unset, major |-> Unset, minor |-> Unset,
   has_minor |-> Unset, dev |-> <<Unset, Unset>>, inode |-> Unset,
   path_level |-> Unset, has_wildwildcard |-> Unset, compiled |-> Unset,
   is_user_pat |-> Unset]

\* a C truth value
Bit(b) == IF b THEN 1 ELSE 0

\* value of the digit c in the given base, -1 if it is none
DigitIn(c, base) ==
  LET v == IF IsDigit(c) THEN DigitVal(c)
           ELSE IF ToLower(c) \in {"a", "b", "c", "d", "e", "f"}
             THEN Ord(ToLower(c)) - 87
           ELSE 99
  IN  IF v < base THEN v ELSE -1

RECURSIVE ParseDigits(_, _, _, _)
ParseDigits(s, k, base, acc) ==
  IF DigitIn(At(s, k), base) >= 0
    THEN ParseDigits(s, k + 1, base, acc * base + DigitIn(At(s, k), base))
    ELSE [val |-> acc, end |-> k]

RECURSIVE SkipSpace(_, _)
SkipSpace(s, k) == IF IsSpace(At(s, k)) THEN SkipSpace(s, k + 1) ELSE k

\* strtoul(s + i - 1, &cp, 0): the value and the index cp; end = i when no
\* number was found
strtoul(s, i) ==
  The({(The({(The({(The({(IF DigitIn(At(s, k1), 10) < 0
            THEN [val |-> 0, end |-> i]
            ELSE [val |-> IF At(s, k0) = "-" THEN 0 - r.val ELSE r.val,
                  end |-> r.end])
        : r \in {IF hex THEN ParseDigits(s, k1 + 2, 16, 0)
            ELSE ParseDigits(s, k1, IF At(s, k1) = "0" THEN 8 ELSE 10, 0)}}))
        : hex \in {At(s, k1) = "0" /\ ToLower(At(s, k1 + 1)) = "x"
            /\ DigitIn(At(s, k1 + 2), 16) >= 0}}))
        : k1 \in {IF At(s, k0) \in {"+", "-"} THEN k0 + 1 ELSE k0}}))
        : k0 \in {SkipSpace(s, i)}})

\* ign__compile_pattern(ignore) for ignore->type in {PT_PCRE, PT_SHELL}
ign__compile_pattern(ign) ==
  IF ign.type = PT_SHELL
    THEN The({(IF tr.status # "OK"
             THEN [status |-> tr.status,
                   ign |-> [ign EXCEPT !.has_wildwildcard = Bit(tr.wild)]]
             ELSE [status |-> IF pcre_compile(tr.re) THEN "OK" ELSE "EINVAL",
                   ign |-> [ign EXCEPT !.has_wildwildcard = Bit(tr.wild),
                                       !.compare_string = tr.re,
                                       !.compiled = Bit(pcre_compile(tr.re))]])
        : tr \in {TranslateShell(ign.compare_string, Len(ign.pattern))}})
    ELSE [status |-> IF pcre_compile(ign.compare_string) THEN "OK" ELSE "EINVAL",
          ign |-> [ign EXCEPT !.compiled = Bit(pcre_compile(ign.compare_string))]]

\* the modifier loop: index behind the modifiers, and the flags
RECURSIVE ModLoop(_, _, _, _, _)
ModLoop(s, p, end, is_ignore, is_icase) ==
  IF At(s, p) \in {"t", "i"}
    THEN IF p + 1 >= end
           THEN [status |-> "EINVAL", p |-> p + 1,
                 is_ignore |-> is_ignore /\ At(s, p) # "t",
                 is_icase  |-> is_icase \/ At(s, p) = "i"]
           ELSE ModLoop(s, p + 1, end,
                        is_ignore /\ At(s, p) # "t", is_icase \/ At(s, p) = "i")
    ELSE [status |-> "OK", p |-> p, is_ignore |-> is_ignore, is_icase |-> is_icase]

\* the comparator loop of a DEVICE pattern
RECURSIVE CmpLoop(_, _, _)
CmpLoop(s, p, compare) ==
  The({(IF bit = 0 THEN [p |-> p, compare |-> compare]
    ELSE The({(CmpLoop(s, p + 1, c))
        : c \in {BitOr(compare, bit)}}))
        : bit \in {IF At(s, p) = "<" THEN PAT_DEV__LESS
      ELSE IF At(s, p) = "=" THEN PAT_DEV__EQUAL
      ELSE IF At(s, p) = ">" THEN PAT_DEV__GREATER
      ELSE 0}})

dev_prefix   == <<"D", "E", "V", "I", "C", "E", ":">>
inode_prefix == <<"I", "N", "O", "D", "E", ":">>
pcre_prefix  == <<"P", "C", "R", "E", ":">>
norm_prefix  == <<".", "/">>

\* the DEVICE branch; s is the C string, p the index of the prefix
InitDevice(s, p, ign0) ==
  The({(The({(The({(IF mj.end = c.p THEN [status |-> "EINVAL", ign |-> i1]
        ELSE IF At(s, mj.end) = NUL
          THEN [status |-> "OK",
                ign |-> [i1 EXCEPT !.minor = PAT_DEV__UNSPECIFIED, !.has_minor = 0]]
        ELSE IF At(s, mj.end) # ":" THEN [status |-> "EINVAL", ign |-> i1]
        ELSE The({(IF mn.end = mj.end + 1 \/ At(s, mn.end) # NUL
                 THEN [status |-> "EINVAL", ign |-> [i1 EXCEPT !.minor = mn.val]]
                 ELSE [status |-> "OK",
                       ign |-> [i1 EXCEPT !.minor = mn.val, !.has_minor = 1]])
        : mn \in {strtoul(s, mj.end + 1)}}))
        : i1 \in {[ign0 EXCEPT !.type = PT_DEVICE, !.compare_string = From(s, p),
                       !.compare = IF c.compare = PAT_DEV__UNSPECIFIED
                                     THEN PAT_DEV__EQUAL ELSE c.compare,
                       !.major = mj.val]}}))
        : mj \in {strtoul(s, c.p)}}))
        : c \in {CmpLoop(s, p + Len(dev_prefix), PAT_DEV__UNSPECIFIED)}})

\* the INODE branch
InitInode(s, p, ign0) ==
  The({(The({(IF mj.end = p + Len(inode_prefix) \/ At(s, mj.end) # ":"
        THEN [status |-> "EINVAL", ign |-> i1]
        ELSE The({(IF mn.end = mj.end + 1 \/ At(s, mn.end) # ":"
            THEN [status |-> "EINVAL", ign |-> i1]
            ELSE The({(The({([status |-> IF ino.end = mn.end + 1 \/ At(s, ino.end) # NUL
                              THEN "EINVAL" ELSE "OK",
                 ign |-> i3])
        : i3 \in {[i1 EXCEPT !.dev = <<mj.val, mn.val>>, !.inode = ino.val]}}))
        : ino \in {strtoul(s, mn.end + 1)}}))
        : mn \in {strtoul(s, mj.end + 1)}}))
        : mj \in {strtoul(s, p + Len(inode_prefix))}}))
        : i1 \in {[ign0 EXCEPT !.type = PT_INODE, !.compare_string = From(s, p)]}})

\* the branch with every text that is no PCRE: pattern taken for a shell pattern
InitPath_shell(s, p, ign0) ==
  LET isPcre == HasPrefixAt(s, p, pcre_prefix)
      q   == IF isPcre THEN p + Len(pcre_prefix) ELSE p
      i1  == [ign0 EXCEPT !.type = IF isPcre THEN PT_PCRE ELSE PT_SHELL]
  IN  The({(ign__compile_pattern(i2))
        : i2 \in {[i1 EXCEPT !.path_level = CountSep(From(s, q)),
                          !.compare_string = From(s, q)]}})

\* the PCRE: and ./ branch
InitPath(s, p, ign0) ==
  LET isPcre == HasPrefixAt(s, p, pcre_prefix)
      isNorm == HasPrefixAt(s, p, norm_prefix)
      q   == IF isPcre THEN p + Len(pcre_prefix) ELSE p
      i1  == [ign0 EXCEPT !.type = IF isPcre THEN PT_PCRE ELSE PT_SHELL]
  IN  IF ~isPcre /\ ~isNorm THEN [status |-> "EINVAL", ign |-> ign0]
      ELSE IF Len(From(s, q)) < 3 THEN [status |-> "EINVAL", ign |-> i1]
      ELSE The({(ign__compile_pattern(i2))
        : i2 \in {[i1 EXCEPT !.path_level = CountSep(From(s, q)),
                          !.compare_string = From(s, q)]}})

\* ign___init_pattern_into(pattern, end, ignore): s is the C string at
\* pattern, end the index of *end in s (0 for a NULL end), old the slot.
ign___init_pattern_into(s, end, old) ==
  LET cp  == Len(s) + 1
      e   == IF end = 0 \/ end > cp THEN cp ELSE end
  IN  The({(IF p0 > 1 /\ p0 >= e THEN [status |-> "EINVAL", ign |-> old]
        ELSE
          The({(The({(IF m.status # "OK" THEN [status |-> "EINVAL", ign |-> i1]
              ELSE IF HasPrefixAt(s, m.p, dev_prefix) THEN InitDevice(s, m.p, i1)
              ELSE IF HasPrefixAt(s, m.p, inode_prefix) THEN InitInode(s, m.p, i1)
              ELSE InitPath(s, m.p, i1))
        : i1 \in {[old EXCEPT !.pattern = From(s, p0),
                            !.is_ignore = Bit(m.is_ignore),
                            !.is_icase = Bit(m.is_icase)]}}))
        : m \in {ModLoop(s, p0, e, TRUE, FALSE)}}))
        : p0 \in {SkipSpace(s, 1)}})

(***************************************************************************)
(* Rule List Store: ign__new_pattern, ign__load_list, ign__save_ignorelist *)
(* as functions of the process memory L = [list, used, max]: list is the   *)
(* realloc()ed array ignore_list with max_ignore_entries slots (slot k of  *)
(* the C array is list[k + 1]), used is used_ignore_entries.               *)
(***************************************************************************)
RESERVE_IGNORE_ENTRIES == 4
PATTERN_POSITION_START == 0
PATTERN_POSITION_END   == -1

\* the rules of the list, in list order
Rules(L) == SubSeq(L.list, 1, L.used)

\* 0-based index of the first user pattern, L.used if there is none
\* (the search loop of ign__new_pattern)
RECURSIVE FirstUser(_, _)
FirstUser(L, i) ==
  IF i < L.used /\ L.list[i + 1].is_user_pat = 0 THEN FirstUser(L, i + 1) ELSE i

\* n slots of memory that was never written
RECURSIVE Fresh(_)
Fresh(n) == IF n <= 0 THEN <<>> ELSE Append(Fresh(n - 1), UninitIgnore)

\* realloc() of ignore_list when used + count reaches max
Grow(L, count) ==
  IF L.used + count >= L.max
    THEN [L EXCEPT !.max = L.used + count + RESERVE_IGNORE_ENTRIES,
                   !.list = L.list \o Fresh(L.used + count + RESERVE_IGNORE_ENTRIES
                                            - Len(L.list))]
    ELSE L

\* the memmove() with a length that is one element short
MemMove_short(list, i, count, used) ==
  SubSeq(list, 1, i + count) \o SubSeq(list, i + 1, used - 1)
    \o SubSeq(list, used + count, Len(list))

\* memmove(ignore_list + i + count, ignore_list + i, (used - i) * sizeof):
\* the slots i .. used-1 go to i+count .. used+count-1
MemMove(list, i, count, used) ==
  SubSeq(list, 1, i + count) \o SubSeq(list, i + 1, used)
    \o SubSeq(list, used + count + 1, Len(list))

\* char *pattern[] == NULL
NullPattern == <<>>

\* the loop of ign__new_pattern that initialises count slots from position on
RECURSIVE FillLoop(_, _, _, _, _, _)
FillLoop(list, i, pattern, ends, user_pattern, position) ==
  IF i >= Len(pattern) THEN [status |-> "OK", list |-> list]
  ELSE The({(IF r.status # "OK"
           THEN [status |-> r.status,
                 list |-> [list EXCEPT ![i + position + 1] = r.ign]]
           ELSE The({(FillLoop(l2, i + 1, pattern, ends, user_pattern, position))
        : l2 \in {[list EXCEPT ![i + position + 1] =
                            [r.ign EXCEPT !.is_user_pat = user_pattern]]}}))
        : r \in {ign___init_pattern_into(pattern[i + 1], ends, list[i + position + 1])}})

\* ign__new_pattern(count, pattern, ends, user_pattern, position); pattern is
\* the sequence of the count C strings, or NullPattern for a NULL pointer.
\* The status "UB" stands for the memmove() with a negative length.
ign__new_pattern(L, count, pattern, ends, user_pattern, position) ==
  The({(IF pattern = NullPattern THEN [status |-> "OK", L |-> G]
    ELSE IF position # PATTERN_POSITION_END /\ G.used > 0
      THEN The({(IF i > G.used \/ i < 0 THEN [status |-> "UB", L |-> G]
             ELSE The({(IF f.status # "OK"
                      THEN [status |-> f.status, L |-> [G EXCEPT !.list = f.list]]
                      ELSE [status |-> "OK",
                            L |-> [G EXCEPT !.list = f.list,
                                            !.used = G.used + count]])
        : f \in {FillLoop(MemMove(G.list, i, count, G.used), 0, pattern,
                               ends, user_pattern, i)}}))
        : i \in {FirstUser(G, 0) + position}})
      ELSE The({(IF f.status # "OK"
               THEN [status |-> f.status, L |-> [G EXCEPT !.list = f.list]]
               ELSE [status |-> "OK",
                     L |-> [G EXCEPT !.list = f.list, !.used = G.used + count]])
        : f \in {FillLoop(G.list, 0, pattern, ends, user_pattern, G.used)}}))
        : G \in {Grow(L, count)}})

\* the decimal digits of n, as printf("%u") writes them
RECURSIVE ToDecimal(_)
ToDecimal(n) == IF n < 10 THEN <<Digits[n + 1]>>
                ELSE Append(ToDecimal(n \div 10), Digits[(n % 10) + 1])

\* number of user patterns (the header loop of ign__save_ignorelist)
RECURSIVE CountUser(_)
CountUser(rules) ==
  IF rules = <<>> THEN 0
  ELSE (IF Head(rules).is_user_pat # 0 THEN 1 ELSE 0) + CountUser(Tail(rules))

\* the data loop writing every pattern of the list
RECURSIVE SaveData_all(_)
SaveData_all(rules) ==
  IF rules = <<>> THEN <<>>
  ELSE Head(rules).pattern \o <<NUL, LF>> \o SaveData_all(Tail(rules))

\* the data loop of ign__save_ignorelist
RECURSIVE SaveData(_)
SaveData(rules) ==
  IF rules = <<>> THEN <<>>
  ELSE (IF Head(rules).is_user_pat # 0
          THEN Head(rules).pattern \o <<NUL, LF>>
          ELSE <<>>) \o SaveData(Tail(rules))

\* the header counting every pattern of the list
ign__save_ignorelist_all(L) ==
  ToDecimal(L.used) \o <<LF>> \o SaveData(Rules(L))

\* ign__save_ignorelist(): the bytes written to the ignore list file
ign__save_ignorelist(L) ==
  ToDecimal(CountUser(Rules(L))) \o <<LF>> \o SaveData(Rules(L))

\* sscanf(memory, "%u", &count): the number of conversions and the value
sscanf_u(mem) ==
  LET k == SkipSpace(mem, 1)
      r == ParseDigits(mem, k, 10, 0)
  IN  IF r.end = k THEN [n |-> 0, count |-> 0] ELSE [n |-> 1, count |-> r.val]

\* strchr(memory, c): index of the first c in the C string, 0 for NULL
RECURSIVE strchr(_, _, _)
strchr(mem, k, c) ==
  IF At(mem, k) = c THEN k
  ELSE IF At(mem, k) = NUL THEN 0
  ELSE strchr(mem, k + 1, c)

NoFile == <<"ENOENT">>

\* the "fill the list" loop of ign__load_list; cp2 is the index behind the file
RECURSIVE LoadLoop(_, _, _, _, _, _)
LoadLoop(L, mem, cp, cp2, l, count) ==
  IF l >= count THEN [status |-> "OK", L |-> L, l |-> l]
  ELSE The({(The({(IF r.status # "OK" THEN [status |-> r.status, L |-> r.L, l |-> l]
           ELSE IF nx >= cp2 THEN [status |-> "OK", L |-> r.L, l |-> l]
           ELSE LoadLoop(r.L, mem, nx, cp2, l + 1, count))
        : nx \in {cp + StrLenAt(mem, cp) + 1}}))
        : r \in {ign__new_pattern(L, 1, <<CStr(mem, cp)>>, cp2 - cp + 1,
                            1, PATTERN_POSITION_END)}})

\* the load that keeps used_ignore_entries when it fails
ign__load_list_keep(L, file) ==
  IF file = NoFile THEN [status |-> "OK", L |-> L]
  ELSE The({(IF nl = 0 THEN [status |-> "OK", L |-> L]
    ELSE The({(IF hdr.n # 1 THEN [status |-> "EINVAL", L |-> L]
      ELSE The({(The({([status |-> r.status, L |-> r.L])
        : r \in {LoadLoop(G.L, file, nl + 1, Len(file) + 1, 0, hdr.count)}}))
        : G \in {ign__new_pattern(L, hdr.count, NullPattern, 0, 0, 0)}}))
        : hdr \in {sscanf_u(file)}}))
        : nl \in {strchr(file, 1, LF)}})

\* the load that, when it fails, drops the rules read from the file only
ign__load_list_before(L, file) ==
  IF file = NoFile THEN [status |-> "OK", L |-> L]
  ELSE The({(IF nl = 0 THEN [status |-> "OK", L |-> L]
    ELSE The({(IF hdr.n # 1 THEN [status |-> "EINVAL", L |-> L]
      ELSE The({(The({(IF r.status # "OK"
            THEN [status |-> r.status, L |-> [r.L EXCEPT !.used = L.used]]
            ELSE [status |-> "OK", L |-> r.L])
        : r \in {LoadLoop(G.L, file, nl + 1, Len(file) + 1, 0, hdr.count)}}))
        : G \in {ign__new_pattern(L, hdr.count, NullPattern, 0, 0, 0)}}))
        : hdr \in {sscanf_u(file)}}))
        : nl \in {strchr(file, 1, LF)}})

\* ign__load_list(): file is the content of the ignore list file, or NoFile
ign__load_list(L, file) ==
  IF file = NoFile THEN [status |-> "OK", L |-> L]
  ELSE The({(IF nl = 0 THEN [status |-> "OK", L |-> L]
    ELSE The({(IF hdr.n # 1 THEN [status |-> "EINVAL", L |-> [L EXCEPT !.used = 0]]
      ELSE The({(The({(IF r.status # "OK"
            THEN [status |-> r.status, L |-> [r.L EXCEPT !.used = 0]]
            ELSE [status |-> "OK", L |-> r.L])
        : r \in {LoadLoop(G.L, file, nl + 1, Len(file) + 1, 0, hdr.count)}}))
        : G \in {ign__new_pattern(L, hdr.count, NullPattern, 0, 0, 0)}}))
        : hdr \in {sscanf_u(file)}}))
        : nl \in {strchr(file, 1, LF)}})

(***************************************************************************)
(* Match Evaluator: ign__is_ignore.  An entry (struct estat) is a record   *)
(* [path, parent, st, filetype]: path is what ops__build_path() returns,   *)
(* parent is NoParent or the parent's [st], st is [isdir, dev, ino] with   *)
(* dev = <<major, minor>>.                                                 *)
(***************************************************************************)
FT_IGNORE == "FT_IGNORE"
NoParent  == [st |-> [isdir |-> TRUE, dev |-> <<Unset, Unset>>, ino |-> Unset],
              null |-> TRUE]

PCRE_ERROR_NOMATCH == -1
PCRE_ERROR_NULL    == -2
\* BUG("unknown pattern type"): the process aborts
BUG_unknown_type   == -6

\* the comparison by major number alone
ign___compare_dev_major(st, ign) ==
  IF st.dev[1] > ign.major THEN 2
  ELSE IF st.dev[1] < ign.major THEN -2
  ELSE 0

\* ign___compare_dev(st, ign)
ign___compare_dev(st, ign) ==
  LET mj == st.dev[1]
      mn == st.dev[2]
  IN  IF mj > ign.major THEN 2
      ELSE IF mj < ign.major THEN -2
      ELSE IF ign.has_minor = 0 THEN 0
      ELSE IF mn > ign.minor THEN 1
      ELSE IF mn < ign.minor THEN -1
      ELSE 0

\* the type dispatch with a DEVICE rule compared to the entry's own device
RuleStatus_own(ign, sts, status) ==
  IF ign.type \in {PT_SHELL, PT_PCRE}
    THEN IF ign.compiled # 1 THEN PCRE_ERROR_NULL
         ELSE IF pcre_exec(ign.compare_string, ign.is_icase = 1, sts.path) THEN 0
         ELSE PCRE_ERROR_NOMATCH
  ELSE IF ign.type = PT_DEVICE
    THEN LET st == sts.st
             c  == ign___compare_dev(st, ign)
             s1 == IF ign.compare = PAT_DEV__LESS THEN Bit(c < 0)
                   ELSE IF ign.compare = PAT_DEV__LESS + PAT_DEV__EQUAL THEN Bit(c <= 0)
                   ELSE IF ign.compare = PAT_DEV__EQUAL THEN Bit(c = 0)
                   ELSE IF ign.compare = PAT_DEV__EQUAL + PAT_DEV__GREATER THEN Bit(c >= 0)
                   ELSE IF ign.compare = PAT_DEV__GREATER THEN Bit(c > 0)
                   ELSE status
         IN  Bit(s1 = 0)
  ELSE IF ign.type = PT_INODE
    THEN Bit(~(ign.dev = sts.st.dev /\ ign.inode = sts.st.ino))
  ELSE BUG_unknown_type

\* The body of the for loop of ign__is_ignore for one rule: the value of
\* status behind the type dispatch (0 means the pattern matches).  status is
\* the value the variable holds when the iteration starts.
RuleStatus(ign, sts, status) ==
  IF ign.type \in {PT_SHELL, PT_PCRE}
    THEN IF ign.compiled # 1 THEN PCRE_ERROR_NULL
         ELSE IF pcre_exec(ign.compare_string, ign.is_icase = 1, sts.path) THEN 0
         ELSE PCRE_ERROR_NOMATCH
  ELSE IF ign.type = PT_DEVICE
    THEN LET st == IF sts.st.isdir THEN sts.parent.st ELSE sts.st
             c  == ign___compare_dev(st, ign)
             s1 == IF ign.compare = PAT_DEV__LESS THEN Bit(c < 0)
                   ELSE IF ign.compare = PAT_DEV__LESS + PAT_DEV__EQUAL THEN Bit(c <= 0)
                   ELSE IF ign.compare = PAT_DEV__EQUAL THEN Bit(c = 0)
                   ELSE IF ign.compare = PAT_DEV__EQUAL + PAT_DEV__GREATER THEN Bit(c >= 0)
                   ELSE IF ign.compare = PAT_DEV__GREATER THEN Bit(c > 0)
                   ELSE status
         IN  Bit(s1 = 0)
  ELSE IF ign.type = PT_INODE
    THEN Bit(~(ign.dev = sts.st.dev /\ ign.inode = sts.st.ino))
  ELSE BUG_unknown_type

\* the loop with the last matching rule deciding
RECURSIVE IsIgnoreLoop_last(_, _, _, _)
IsIgnoreLoop_last(L, sts, i, status) ==
  IF i >= L.used THEN [status |-> 0, is_ignored |-> 0]
  ELSE The({(IF rest.is_ignored # 0 \/ RuleStatus(L.list[i + 1], sts, status) # 0
           THEN rest
           ELSE [status |-> 0,
                 is_ignored |-> IF L.list[i + 1].is_ignore # 0 THEN 1 ELSE -1])
        : rest \in {IsIgnoreLoop_last(L, sts, i + 1, status)}})

\* the for loop of ign__is_ignore from rule i (0-based) on
RECURSIVE IsIgnoreLoop(_, _, _, _)
IsIgnoreLoop(L, sts, i, status) ==
  IF i >= L.used THEN [status |-> 0, is_ignored |-> 0]
  ELSE The({(The({(IF s = BUG_unknown_type
              \/ (s # 0 /\ s # PCRE_ERROR_NOMATCH /\ ign.type \in {PT_SHELL, PT_PCRE})
             THEN [status |-> s, is_ignored |-> 0]
           ELSE IF s = 0
             THEN [status |-> 0, is_ignored |-> IF ign.is_ignore # 0 THEN 1 ELSE -1]
           ELSE IsIgnoreLoop(L, sts, i + 1, s))
        : s \in {RuleStatus(ign, sts, status)}}))
        : ign \in {L.list[i + 1]}})

\* the evaluator asking the rules about every entry that has a parent
ign__is_ignore_rules(L, sts) ==
  IF sts.parent.null THEN [status |-> 0, is_ignored |-> 0]
  ELSE IsIgnoreLoop(L, sts, 0, 0)

\* the evaluator treating the root as every other entry
ign__is_ignore_root(L, sts) ==
  IF sts.filetype = FT_IGNORE THEN [status |-> 0, is_ignored |-> 1]
  ELSE IsIgnoreLoop(L, sts, 0, 0)

\* ign__is_ignore(sts, &is_ignored)
ign__is_ignore(L, sts) ==
  IF sts.parent.null THEN [status |-> 0, is_ignored |-> 0]
  ELSE IF sts.filetype = FT_IGNORE THEN [status |-> 0, is_ignored |-> 1]
  ELSE IsIgnoreLoop(L, sts, 0, 0)

\* ign__work(root, argc, argv) for "fsvs ignore [prepend|at=N|append] pattern..":
\* argv is the sequence of pattern texts, position what the position
\* specification sets (PATTERN_POSITION_END without one), at is TRUE for at=N.
\* loaded is the list as ign__load_list left it.
ign__work(L, file, at, position, argv) ==
  The({(IF ld.status # "OK"
      THEN [status |-> ld.status, L |-> ld.L, file |-> file, loaded |-> ld.L,
            lstatus |-> ld.status]
    ELSE IF at /\ position > ld.L.used
      THEN [status |-> "EINVAL", L |-> ld.L, file |-> file, loaded |-> ld.L,
            lstatus |-> "OK"]
    ELSE The({([status |-> r.status, L |-> r.L,
            file |-> IF r.status = "OK" THEN ign__save_ignorelist(r.L) ELSE file,
            loaded |-> ld.L, lstatus |-> "OK"])
        : r \in {ign__new_pattern(ld.L, Len(argv), argv, 0, 1, position)}}))
        : ld \in {ign__load_list(L, file)}})

(***************************************************************************)
(* The process and the ignore list file.  Every operation is one call of   *)
(* the function it is named after.  A call that returns an error ends the  *)
(* process (STOPIF passes the status up to main), as does a fault; the     *)
(* ignore list file survives and the next process starts with an empty     *)
(* ignore_list.  call records the last call: its arguments, the rules it   *)
(* started from and its result.                                            *)
(***************************************************************************)
\* entry is the entry (struct estat) add and unversion work on, prop_db the
\* property files by path, output what has been written to stdout.
VARIABLES ignore_list, used_ignore_entries, max_ignore_entries, waa_file, pc, call,
          entry, prop_db, output

vars == <<ignore_list, used_ignore_entries, max_ignore_entries, waa_file, pc, call,
          entry, prop_db, output>>

\* what the ignore list operations leave alone
wc == <<entry, prop_db, output>>

\* what add, unversion and prop-get leave alone
ign_vars == <<ignore_list, used_ignore_entries, max_ignore_entries, waa_file>>

Mem == [list |-> ignore_list, used |-> used_ignore_entries, max |-> max_ignore_entries]

SetMem(L) ==
  /\ ignore_list' = L.list
  /\ used_ignore_entries' = L.used
  /\ max_ignore_entries' = L.max

\* an entry nothing was asked about
NoEntry ==
  [path |-> <<>>, parent |-> NoParent,
   st |-> [isdir |-> FALSE, dev |-> <<Unset, Unset>>, ino |-> Unset],
   filetype |-> "FT_FILE"]

\* no entry named for add or unversion
NoEstat == [in_list |-> FALSE, flags |-> {}, repos_rev |-> 0]

\* no property file
NoProps == <<>>

NoCall ==
  [op |-> "none", status |-> "OK", pre |-> <<>>, loaded |-> <<>>, lstatus |-> "OK",
   pattern |-> <<>>, user_pattern |-> 0, position |-> 0, at |-> FALSE,
   file |-> NoFile, entry |-> NoEntry, is_ignored |-> 0]

\* how a call ends the process, or lets it run on
After(status) == IF status = "OK" THEN "run"
                 ELSE IF status \in {"SIGSEGV", "BUG"} THEN "crashed"
                 ELSE "failed"

\* what the build can make of undefined behaviour
Outcomes(status) == IF status = "UB" THEN {"SIGSEGV", "BUG"} ELSE {status}

(***************************************************************************)
(* Bounds and inputs.                                                      *)
(***************************************************************************)
\* the longest rule list the insert operations build
MaxRules == 4

T_a    == <<".", "/", "a">>
T_tb   == <<"t", ".", "/", "b">>
T_sys  == <<".", "/", "s">>
T_bad  == <<"X", "Y", "Z", ":", "f", "o", "o">>
T_ww   == <<".", "/", "*", "*">>
T_keep == <<"t", ".", "/", "k", "e", "e", "p", ".", "t", "x", "t">>
T_dne  == <<"D", "E", "V", "I", "C", "E", ":", "<", ">", "3">>
T_td4  == <<"t", "D", "E", "V", "I", "C", "E", ":", "4">>

\* the batches of user pattern texts, and of built-in pattern texts
UserBatches == {<<T_a>>, <<T_tb>>, <<T_a, T_tb>>, <<T_bad>>, <<T_a, T_bad>>}
SysBatches  == {<<T_sys>>}

Positions == {PATTERN_POSITION_END} \cup 0..MaxRules

Init ==
  /\ ignore_list = <<>>
  /\ used_ignore_entries = 0
  /\ max_ignore_entries = 0
  /\ waa_file = NoFile
  /\ pc = "run"
  /\ call = NoCall
  /\ entry = NoEstat
  /\ prop_db = NoProps
  /\ output = <<>>

\* the record of a call of ign__new_pattern
NewPatternCall(op, pattern, user_pattern, position, status) ==
  [NoCall EXCEPT !.op = op, !.status = status, !.pre = Rules(Mem),
                 !.pattern = pattern, !.user_pattern = user_pattern,
                 !.position = position]

\* ign__new_pattern(count, NULL, NULL, 0, 0): reserve space for count rules
Reserve ==
  \E count \in {0, MaxRules} :
    LET r == ign__new_pattern(Mem, count, NullPattern, 0, 0, 0)
    IN  /\ pc = "run"
        /\ max_ignore_entries <= MaxRules + RESERVE_IGNORE_ENTRIES
        /\ SetMem(r.L)
        /\ pc' = After(r.status)
        /\ call' = NewPatternCall("reserve", NullPattern, 0, 0, r.status)
        /\ UNCHANGED <<waa_file, wc>>

\* one call ign__new_pattern(count, pattern, NULL, user_pattern, position)
DoNewPattern(pattern, user_pattern, position) ==
  LET r == ign__new_pattern(Mem, Len(pattern), pattern, 0, user_pattern, position)
  IN  /\ pc = "run"
      /\ used_ignore_entries + Len(pattern) <= MaxRules
      /\ \E st \in Outcomes(r.status) :
           /\ pc' = After(st)
           /\ call' = NewPatternCall("new_pattern", pattern, user_pattern, position, st)
      /\ SetMem(r.L)
      /\ UNCHANGED <<waa_file, wc>>

\* ign__new_pattern for user patterns (user_pattern = 1) and for the
\* patterns fsvs itself supplies (user_pattern = 0), at any position
NewPattern ==
  \/ \E pattern \in UserBatches, position \in Positions :
       DoNewPattern(pattern, 1, position)
  \/ \E pattern \in SysBatches, position \in Positions :
       DoNewPattern(pattern, 0, position)

\* the process ends and the next one starts: ignore_list is NULL again, the
\* ignore list file stays
Restart ==
  /\ ignore_list' = <<>>
  /\ used_ignore_entries' = 0
  /\ max_ignore_entries' = 0
  /\ pc' = "run"
  /\ call' = [NoCall EXCEPT !.op = "restart"]
  /\ UNCHANGED <<waa_file, wc>>

Next == Reserve \/ NewPattern \/ Restart

Spec == Init /\ [][Next]_vars

(***************************************************************************)
(* The ignore list file: fsvs itself puts its patterns into the empty list *)
(* of a new process (waa__init), "fsvs ignore load" appends user patterns, *)
(* ign__load_list reads the file, ign__save_ignorelist writes it, and      *)
(* "fsvs ignore ..." (ign__work) loads, inserts and saves.                 *)
(***************************************************************************)
\* a file as the header text, the strings behind it (each followed by NUL
\* and a newline) and the bytes behind the last string's NUL
RECURSIVE FileBody(_, _)
FileBody(texts, tail) ==
  IF texts = <<>> THEN <<>>
  ELSE IF Len(texts) = 1 THEN texts[1] \o <<NUL>> \o tail
  ELSE texts[1] \o <<NUL, LF>> \o FileBody(Tail(texts), tail)

FileOf(header, texts, tail) == header \o FileBody(texts, tail)

\* the files an ignore list file is replaced by before it is loaded
FileInputs ==
  { FileOf(<<"3", LF>>, <<T_a, T_tb>>, <<LF>>),
    FileOf(<<"3", LF>>, <<T_a, T_tb>>, <<>>),
    FileOf(<<"2", LF>>, <<T_a>>, <<LF>>),
    FileOf(<<"2", LF>>, <<T_a>>, <<>>),
    FileOf(<<"1", LF>>, <<>>, <<>>),
    FileOf(<<"x", LF>>, <<T_a>>, <<LF>>),
    FileOf(<<"x">>, <<>>, <<>>),
    FileOf(<<"1", "x", LF>>, <<T_a>>, <<LF>>),
    FileOf(<<"2", LF>>, <<T_a, T_bad>>, <<LF>>),
    FileOf(<<"1", LF>>, <<T_bad>>, <<LF>>) }

\* the list holds no user pattern: where a process is before it loads the file
NoUserPattern == CountUser(Rules(Mem)) = 0

\* waa__init: the patterns of fsvs itself go into the empty list
InitSys ==
  LET r == ign__new_pattern(Mem, 1, <<T_sys>>, 0, 0, PATTERN_POSITION_END)
  IN  /\ pc = "run"
      /\ used_ignore_entries = 0
      /\ SetMem(r.L)
      /\ pc' = After(r.status)
      /\ call' = NewPatternCall("new_pattern", <<T_sys>>, 0, PATTERN_POSITION_END,
                                r.status)
      /\ UNCHANGED <<waa_file, wc>>

\* "fsvs ignore load": ign__new_pattern(1, &copy, NULL, 1, PATTERN_POSITION_END)
AppendPattern ==
  \E text \in {T_a, T_tb, T_bad} :
    LET r == ign__new_pattern(Mem, 1, <<text>>, 0, 1, PATTERN_POSITION_END)
    IN  /\ pc = "run"
        /\ used_ignore_entries < MaxRules
        /\ SetMem(r.L)
        /\ pc' = After(r.status)
        /\ call' = NewPatternCall("new_pattern", <<text>>, 1, PATTERN_POSITION_END,
                                  r.status)
        /\ UNCHANGED <<waa_file, wc>>

\* ign__save_ignorelist
SaveList ==
  /\ pc = "run"
  /\ waa_file' = ign__save_ignorelist(Mem)
  /\ call' = [NoCall EXCEPT !.op = "save", !.pre = Rules(Mem),
                            !.file = ign__save_ignorelist(Mem)]
  /\ UNCHANGED <<ignore_list, used_ignore_entries, max_ignore_entries, pc, wc>>

\* ign__load_list of the file as it is, or as something else left it
LoadList ==
  \E file \in {waa_file} \cup FileInputs :
    LET r == ign__load_list(Mem, file)
    IN  /\ pc = "run"
        /\ NoUserPattern
        /\ waa_file' = file
        /\ SetMem(r.L)
        /\ pc' = After(r.status)
        /\ call' = [NoCall EXCEPT !.op = "load", !.status = r.status,
                                  !.pre = Rules(Mem), !.file = file]
        /\ UNCHANGED wc

\* "fsvs ignore [prepend|at=N|append] pattern.."
IgnWork ==
  \E argv \in UserBatches, position \in Positions, at \in BOOLEAN :
    LET r == ign__work(Mem, waa_file, at, position, argv)
    IN  /\ pc = "run"
        /\ NoUserPattern
        /\ at => position >= 0
        /\ r.loaded.used + Len(argv) <= MaxRules
        /\ waa_file' = r.file
        /\ SetMem(r.L)
        /\ \E st \in Outcomes(r.status) :
             /\ pc' = After(st)
             /\ call' = [NoCall EXCEPT !.op = "ign_work", !.status = st,
                                       !.pre = Rules(Mem), !.loaded = Rules(r.loaded),
                                       !.lstatus = r.lstatus,
                                       !.pattern = argv, !.user_pattern = 1,
                                       !.position = position, !.at = at,
                                       !.file = waa_file]
        /\ UNCHANGED wc

NextFile == InitSys \/ AppendPattern \/ SaveList \/ LoadList \/ IgnWork \/ Restart

SpecFile == Init /\ [][NextFile]_vars

(***************************************************************************)
(* Matching: entries are classified against the list the process holds.    *)
(***************************************************************************)
MatchTexts == {T_ww, T_keep, T_dne, T_td4}

P_keep == <<".", "/", "k", "e", "e", "p", ".", "t", "x", "t">>
P_x    == <<".", "/", "x">>

Dir(dev) == [st |-> [isdir |-> TRUE, dev |-> dev, ino |-> 2], null |-> FALSE]

Entries ==
  { [path |-> P_keep, parent |-> Dir(<<3, 0>>),
     st |-> [isdir |-> FALSE, dev |-> <<3, 0>>, ino |-> 7], filetype |-> "FT_FILE"],
    [path |-> P_x, parent |-> Dir(<<3, 0>>),
     st |-> [isdir |-> FALSE, dev |-> <<4, 0>>, ino |-> 8], filetype |-> "FT_FILE"],
    [path |-> P_x, parent |-> Dir(<<3, 0>>),
     st |-> [isdir |-> TRUE, dev |-> <<4, 0>>, ino |-> 9], filetype |-> "FT_DIR"],
    [path |-> P_x, parent |-> Dir(<<3, 0>>),
     st |-> [isdir |-> FALSE, dev |-> <<4, 0>>, ino |-> 10], filetype |-> FT_IGNORE],
    [path |-> <<".">>, parent |-> NoParent,
     st |-> [isdir |-> TRUE, dev |-> <<3, 0>>, ino |-> 2], filetype |-> "FT_DIR"] }

\* a pattern is appended to the list the entries are classified against
MatchPattern ==
  \E text \in MatchTexts :
    LET r == ign__new_pattern(Mem, 1, <<text>>, 0, 1, PATTERN_POSITION_END)
    IN  /\ pc = "run"
        /\ used_ignore_entries < MaxRules
        /\ SetMem(r.L)
        /\ pc' = After(r.status)
        /\ call' = NewPatternCall("new_pattern", <<text>>, 1, PATTERN_POSITION_END,
                                  r.status)
        /\ UNCHANGED <<waa_file, wc>>

\* ign__is_ignore(sts, &is_ignored)
IsIgnore ==
  \E sts \in Entries :
    LET r == ign__is_ignore(Mem, sts)
        st == IF r.status = 0 THEN "OK"
              ELSE IF r.status = BUG_unknown_type THEN "BUG" ELSE "EPCRE"
    IN  /\ pc = "run"
        /\ pc' = After(st)
        /\ call' = [NoCall EXCEPT !.op = "is_ignore", !.status = st,
                                  !.pre = Rules(Mem), !.entry = sts,
                                  !.is_ignored = r.is_ignored]
        /\ UNCHANGED <<ignore_list, used_ignore_entries, max_ignore_entries, waa_file, wc>>

NextMatch == MatchPattern \/ IsIgnore \/ Restart

SpecMatch == Init /\ [][NextMatch]_vars

(***************************************************************************)
(* The rule language: single rules and short lists are tested against      *)
(* entries.  The lists are short because the cases of the rule language    *)
(* are cases of one rule, or of two rules in either order.                 *)
(***************************************************************************)
\* the longest rule list the entries of the rule language are tested against
MaxTested == 2

\* ign__new_pattern(1, &text, NULL, 1, PATTERN_POSITION_END) while the list
\* holds fewer than cap rules
AppendText(text, cap) ==
  LET r == ign__new_pattern(Mem, 1, <<text>>, 0, 1, PATTERN_POSITION_END)
  IN  /\ pc = "run"
      /\ used_ignore_entries < cap
      /\ SetMem(r.L)
      /\ pc' = After(r.status)
      /\ call' = NewPatternCall("new_pattern", <<text>>, 1, PATTERN_POSITION_END,
                                r.status)
      /\ UNCHANGED <<waa_file, wc>>

\* ign__is_ignore(sts, &is_ignored) on the list the process holds
Classify(sts) ==
  LET r  == ign__is_ignore(Mem, sts)
      st == IF r.status = 0 THEN "OK"
            ELSE IF r.status = BUG_unknown_type THEN "BUG" ELSE "EPCRE"
  IN  /\ pc = "run"
      /\ pc' = After(st)
      /\ call' = [NoCall EXCEPT !.op = "is_ignore", !.status = st,
                                !.pre = Rules(Mem), !.entry = sts,
                                !.is_ignored = r.is_ignored]
      /\ UNCHANGED <<ignore_list, used_ignore_entries, max_ignore_entries, waa_file, wc>>

\* a file with the path and the device, in a directory with the device pdev
File(path, dev, pdev) ==
  [path |-> path, parent |-> Dir(pdev),
   st |-> [isdir |-> FALSE, dev |-> dev, ino |-> 7], filetype |-> "FT_FILE"]

\* a directory with the path and the device, in a directory with the device pdev
Directory(path, dev, pdev) ==
  [path |-> path, parent |-> Dir(pdev),
   st |-> [isdir |-> TRUE, dev |-> dev, ino |-> 9], filetype |-> "FT_DIR"]

G_a   == <<".", "/", "a">>
G_as  == <<".", "/", "a", "/">>
G_tm  == <<"t", ".", "/", "a", "/", "m", "n", "t">>
G_ia  == <<"i", ".", "/", "a">>
G_s   == <<".", "/", "a", "/", "*">>
G_ss  == <<".", "/", "a", "/", "*", "*">>
G_sss == <<".", "/", "a", "/", "*", "*", "*">>

GlobTexts == {G_a, G_as, G_tm, G_ia, G_s, G_ss, G_sss}

P_a    == <<".", "/", "a">>
P_A    == <<".", "/", "A">>
P_ab   == <<".", "/", "a", "b">>
P_a_b  == <<".", "/", "a", "/", "b">>
P_a_h  == <<".", "/", "a", "/", ".", "h", "i", "d", "d", "e", "n">>
P_a_m  == <<".", "/", "a", "/", "m", "n", "t">>
P_abc  == <<".", "/", "a", "/", "b", "/", "c">>
P_abcd == <<".", "/", "a", "/", "b", "/", "c", "/", "d">>

\* the paths of the entries; a file name may end in a newline
GlobPaths ==
  {P_a, P_A, P_ab, P_a_b, P_a_h, P_a_m, P_abc, P_abcd,
   Append(P_a, LF), Append(P_a_m, LF)}

GlobEntries == {File(path, <<3, 0>>, <<3, 0>>) : path \in GlobPaths}

GlobPattern == \E text \in GlobTexts : AppendText(text, MaxTested)

GlobIsIgnore == \E sts \in GlobEntries : Classify(sts)

NextGlob == GlobPattern \/ GlobIsIgnore \/ Restart

SpecGlob == Init /\ [][NextGlob]_vars

(***************************************************************************)
(* Rule texts: what ign___init_pattern_into accepts and what it rejects.   *)
(***************************************************************************)
X_ti_a == <<"t", "i", ".", "/", "a">>

\* the texts ign___init_pattern_into accepts: shell patterns with and without
\* leading white space and mode characters, a DEVICE, an INODE and a PCRE rule
GoodTexts ==
  { T_a, T_td4, X_ti_a,
    <<" ", ".", "/", "a">>,
    <<LF, ".", "/", "a">>,
    <<"D", "E", "V", "I", "C", "E", ":", "3">>,
    <<"t", "I", "N", "O", "D", "E", ":", "3", ":", "1", ":", "5">>,
    <<"P", "C", "R", "E", ":", ".", "/", "a">> }

\* the texts it is to reject: no prefix, nothing behind the white space or
\* the mode characters, white space behind a mode character, a prefix in
\* lower case, a shell pattern that is too short, a DEVICE rule without number
BadTexts ==
  { T_bad, <<>>, <<" ">>, <<"t">>, <<"t", "i">>, <<" ", "t">>,
    <<"t", " ", ".", "/", "a">>,
    <<"a">>,
    <<"d", "e", "v", "i", "c", "e", ":", "3">>,
    <<".", "/">>,
    <<"D", "E", "V", "I", "C", "E", ":">> }

ParsePattern == \E text \in GoodTexts \cup BadTexts : AppendText(text, MaxTested)

NextParse == ParsePattern \/ Restart

SpecParse == Init /\ [][NextParse]_vars

(***************************************************************************)
(* DEVICE rules against files and directories on several devices.          *)
(***************************************************************************)
D_3   == <<"D", "E", "V", "I", "C", "E", ":", "3">>
D_lt3 == <<"D", "E", "V", "I", "C", "E", ":", "<", "3">>
D_3_1 == <<"D", "E", "V", "I", "C", "E", ":", "3", ":", "1">>

DevTexts == {D_3, D_lt3, D_3_1, T_td4}

\* the devices: major numbers around 3, minor numbers around 1
Devices == {2, 3, 4} \X {0, 1, 2}

\* files on every device, in a directory on the same and on another device;
\* directories that are mount points (own device other than the parent's)
\* and directories that are none
DevEntries ==
  {File(P_x, dev, dev) : dev \in Devices}
    \cup {File(P_x, <<3, 1>>, <<2, 0>>), File(P_x, <<2, 0>>, <<3, 1>>)}
    \cup {Directory(P_x, <<3, 1>>, <<2, 0>>), Directory(P_x, <<2, 0>>, <<3, 1>>),
          Directory(P_x, <<3, 1>>, <<3, 1>>), Directory(P_x, <<4, 2>>, <<3, 0>>)}

DevPattern == \E text \in DevTexts : AppendText(text, MaxTested)

DevIsIgnore == \E sts \in DevEntries : Classify(sts)

NextDev == DevPattern \/ DevIsIgnore \/ Restart

SpecDev == Init /\ [][NextDev]_vars

(***************************************************************************)
(* The per-directory rule lists.  ign__set_ignorelist builds the active    *)
(* list of a directory from the active list of its parent with             *)
(* ign___do_parent_list; the evaluator then looks only at dir->active_ign. *)
(* The source compiles ign___do_parent_list, but ign__set_ignorelist       *)
(* returns before it builds anything and the evaluator's use of the active *)
(* list is excluded from the build.                                        *)
(***************************************************************************)
\* sts->path_level of the directory an entry lies in: 0 for the root, one more
\* for every directory below it
DirLevel(sts) == CountSep(sts.path) - 1

\* take in ign___do_parent_list: whether a rule of the parent goes to the
\* directory of the level
take(ign, path_level) ==
  IF ign.has_wildwildcard # 0 THEN path_level >= ign.path_level
  ELSE path_level = ign.path_level

\* the while loop of ign___do_parent_list from source[k] on; target is the block
\* *target points to, holding the next_index rules taken so far
RECURSIVE ParentListLoop(_, _, _, _, _, _)
ParentListLoop(target, next_index, source, k, path_level, all_parent) ==
  IF k > Len(source)
    THEN [target |-> target, next_index |-> next_index, all_parent |-> all_parent]
  ELSE IF take(source[k], path_level)
    THEN ParentListLoop(SubSeq(target, 1, next_index) \o <<source[k]>>,
                        next_index + 1, source, k + 1, path_level, all_parent)
  ELSE ParentListLoop(target, next_index, source, k + 1, path_level, FALSE)

\* no list
NULL == "NULL"

\* a block given back to the allocator
Freed == "freed"

\* the block the child's list is allocated in, copying every rule taken
ign___do_parent_list_copy(heap, target, next_index, source, path_level) ==
  IF source = NULL
    THEN [heap |-> heap, target |-> target, next_index |-> next_index]
  ELSE The({([heap |-> [heap EXCEPT ![target] = r.target], target |-> target,
              next_index |-> r.next_index])
        : r \in {ParentListLoop(heap[target], next_index, heap[source], 1,
                                path_level, TRUE)}})

\* ign___do_parent_list(&target, next_index, source, sts, ..): heap gives the
\* block behind every list pointer, target is *target; the result has the heap
\* and *target as the call leaves them, and the returned next_index
ign___do_parent_list(heap, target, next_index, source, path_level) ==
  IF source = NULL
    THEN [heap |-> heap, target |-> target, next_index |-> next_index]
  ELSE The({(IF r.all_parent
               THEN [heap |-> [heap EXCEPT ![target] = Freed], target |-> source,
                     next_index |-> r.next_index]
             ELSE [heap |-> [heap EXCEPT ![target] = r.target], target |-> target,
                   next_index |-> r.next_index])
        : r \in {ParentListLoop(heap[target], next_index, heap[source], 1,
                                path_level, TRUE)}})

\* the heap with the parent's active list and the block calloc gave the child
ParentAndChild(source) == [parent |-> source, child |-> <<>>]

\* the rules on the list ign___do_parent_list leaves a directory of the level
\* with, the parent's list being source: a parent without rules has no list
ParentList(source, path_level) ==
  The({(r.heap[r.target])
       : r \in {ign___do_parent_list(ParentAndChild(source), "child", 0,
                                     IF source = <<>> THEN NULL ELSE "parent",
                                     path_level)}})

\* sts->active_ign as ign__set_ignorelist derives it down the tree; the loop for
\* the root is empty in the source, the root is given every rule of the list
RECURSIVE active_ign(_, _)
active_ign(rules, path_level) ==
  IF path_level <= 0 THEN rules
  ELSE ParentList(active_ign(rules, path_level - 1), path_level)

\* the evaluator on dir->active_ign in place of the whole list
ViewClassify(sts) ==
  LET view == active_ign(Rules(Mem), DirLevel(sts))
      r    == ign__is_ignore([list |-> view, used |-> Len(view), max |-> Len(view)],
                             sts)
      st   == IF r.status = 0 THEN "OK"
              ELSE IF r.status = BUG_unknown_type THEN "BUG" ELSE "EPCRE"
  IN  /\ pc = "run"
      /\ pc' = After(st)
      /\ call' = [NoCall EXCEPT !.op = "view_is_ignore", !.status = st,
                                !.pre = Rules(Mem), !.loaded = view, !.entry = sts,
                                !.is_ignored = r.is_ignored]
      /\ UNCHANGED <<ignore_list, used_ignore_entries, max_ignore_entries, waa_file, wc>>

ViewPattern == \E text \in GlobTexts : AppendText(text, MaxTested)

ViewIsIgnore == \E sts \in GlobEntries : ViewClassify(sts)

NextView == ViewPattern \/ ViewIsIgnore \/ Restart

SpecView == Init /\ [][NextView]_vars

\* ign___do_parent_list for a child directory of the level, the list the
\* process holds being its parent's active list
DoParentList(path_level) ==
  LET source == IF Rules(Mem) = <<>> THEN NULL ELSE "parent"
      heap   == ParentAndChild(Rules(Mem))
      r      == ign___do_parent_list(heap, "child", 0, source, path_level)
  IN  /\ pc = "run"
      /\ pc' = "run"
      /\ call' = [op |-> "do_parent_list", status |-> "OK", source |-> source,
                  path_level |-> path_level, heap |-> heap, after |-> r.heap,
                  target |-> r.target, next_index |-> r.next_index]
      /\ UNCHANGED <<ignore_list, used_ignore_entries, max_ignore_entries, waa_file, wc>>

\* the levels of the directories below the root
MaxLevel == 3

SharePattern == \E text \in GlobTexts : AppendText(text, MaxTested)

ShareParentList == \E path_level \in 1..MaxLevel : DoParentList(path_level)

NextShare == SharePattern \/ ShareParentList \/ Restart

SpecShare == Init /\ [][NextShare]_vars

(***************************************************************************)
(* add and unversion: au__action.  estat.flags is the set of the RF_ bits  *)
(* that are set, so that & is \cap, | is \cup, ^ the symmetric difference  *)
(* and & ~mask is \ mask.  An entry is [in_list, flags, repos_rev], in_list *)
(* telling whether it is in the entry list of its parent.                  *)
(***************************************************************************)
RF_ADD       == "RF_ADD"
RF_UNVERSION == "RF_UNVERSION"

\* two of the other bits of estat.flags
RF_CHECK     == "RF_CHECK"
RF_PUSHPROPS == "RF_PUSHPROPS"

\* a ^ b on flags
Xor(a, b) == (a \ b) \cup (b \ a)

\* au__action with every flag it is given kept
au__action_or(sts, i_val, st_status, del_status) ==
  IF i_val # {RF_UNVERSION} /\ i_val # {RF_ADD} THEN [status |-> "BUG", sts |-> sts]
  ELSE [status |-> st_status, sts |-> [sts EXCEPT !.flags = sts.flags \cup i_val]]

\* au__action that only sets the flag of the action
au__action_set(sts, i_val, st_status, del_status) ==
  IF i_val # {RF_UNVERSION} /\ i_val # {RF_ADD} THEN [status |-> "BUG", sts |-> sts]
  ELSE [status |-> st_status,
        sts |-> [sts EXCEPT !.flags = (sts.flags \ {RF_ADD, RF_UNVERSION}) \cup i_val]]

\* au__action(sts) with action->i_val = i_val; st_status is what st__status
\* returns and del_status what ops__delete_entry returns, "OK" for 0
au__action(sts, i_val, st_status, del_status) ==
  IF i_val # {RF_UNVERSION} /\ i_val # {RF_ADD} THEN [status |-> "BUG", sts |-> sts]
  ELSE LET mask  == {RF_ADD, RF_UNVERSION}
           old   == sts.flags \cap mask
           flags == (sts.flags \ mask) \cup i_val
           set   == [sts EXCEPT !.flags = flags]
       IN  IF st_status # "OK" THEN [status |-> st_status, sts |-> set]
           ELSE IF Xor(flags, old) \cap mask = mask
             THEN IF sts.repos_rev = 0
                    THEN IF del_status # "OK"
                           THEN [status |-> del_status, sts |-> set]
                         ELSE [status |-> "OK", sts |-> [set EXCEPT !.in_list = FALSE]]
                  ELSE [status |-> "OK", sts |-> [set EXCEPT !.flags = flags \ mask]]
           ELSE [status |-> "OK", sts |-> set]

\* what st__status and ops__delete_entry can return
LibStatus == {"OK", "EIO"}

\* no call of au__action before
NoAction == [op |-> "none", status |-> "OK", i_val |-> {}, sts |-> NoEstat]

\* one call of au__action on the entry; call keeps the entry as it was before
\* the call, the call before it, and the entry as the first call found it
AuAction(i_val) ==
  \E st_status \in LibStatus, del_status \in LibStatus :
    LET r == au__action(entry, i_val, st_status, del_status)
    IN  /\ pc = "run"
        /\ entry.in_list
        /\ entry' = r.sts
        /\ pc' = After(r.status)
        /\ call' = [op |-> "au_action", status |-> r.status, i_val |-> i_val,
                    sts |-> entry,
                    prev |-> IF call.op = "au_action"
                               THEN [op |-> call.op, status |-> call.status,
                                     i_val |-> call.i_val, sts |-> call.sts]
                             ELSE NoAction,
                    start |-> IF call.op = "au_action" THEN call.start ELSE entry]
        /\ UNCHANGED <<ign_vars, prop_db, output>>

\* fsvs add
Add == AuAction({RF_ADD})

\* fsvs unversion
Unversion == AuAction({RF_UNVERSION})

\* au__action reached with the action of another command
OtherAction == AuAction({})

\* a revision an entry has been committed at
SomeRev == 3

\* the entries add and unversion find: with any flags, committed or not
AuEntries ==
  {[in_list |-> TRUE, flags |-> f, repos_rev |-> r]
     : f \in SUBSET {RF_ADD, RF_UNVERSION, RF_CHECK, RF_PUSHPROPS}, r \in {0, SomeRev}}

InitAu ==
  /\ ignore_list = <<>>
  /\ used_ignore_entries = 0
  /\ max_ignore_entries = 0
  /\ waa_file = NoFile
  /\ pc = "run"
  /\ call = NoCall
  /\ entry \in AuEntries
  /\ prop_db = NoProps
  /\ output = <<>>

NextAu == Add \/ Unversion \/ OtherAction

SpecAu == InitAu /\ [][NextAu]_vars

(***************************************************************************)
(* prop-get: prp__g_work.  prop_db gives, for every path, its property     *)
(* file: whether it exists and the value stored under every property name  *)
(* (None for a name without value).  output is the sequence of the lines written to    *)
(* stdout, every value being followed by a newline.                        *)
(***************************************************************************)
None == "none"

PropPaths  == {"./a", "./b"}
PropNames  == {"owner", "mode"}
PropValues == {"root", "0644"}

\* no property file for a path
Absent == [exists |-> FALSE, props |-> [name \in PropNames |-> None]]

\* the property files there can be for a path
PropFiles ==
  {Absent} \cup {[exists |-> TRUE, props |-> f] : f \in [PropNames -> {None} \cup PropValues]}

\* hsh__new(wcfile, WAA__PROP_EXT, GDBM_WRCREAT, &db) by prp__open_byname: the
\* file is created when there is none
prp__open_byname(db, wcfile) ==
  IF ~db[wcfile].exists THEN [db EXCEPT ![wcfile].exists = TRUE]
  ELSE db

\* the for loop of prp__g_work with argv at the i-th of the n paths; normalized
\* is what waa__find_common_base made of the paths, and is not advanced by the
\* loop; nokey is what hsh__fetch returns for a name without value
RECURSIVE GetLoop(_, _, _, _, _, _, _)
GetLoop(db, key, normalized, i, n, nokey, printed) ==
  IF i > n THEN [status |-> "OK", prop_db |-> db, printed |-> printed]
  ELSE The({(The({(IF value = None /\ nokey # "OK"
                     THEN [status |-> nokey, prop_db |-> opened, printed |-> printed]
                   ELSE GetLoop(opened, key, normalized, i + 1, n, nokey,
                                IF value # None THEN Append(printed, value)
                                ELSE printed))
              : value \in {opened[normalized[1]].props[key]}}))
        : opened \in {prp__open_byname(db, normalized[1])}})

\* prp__g_work(root, argc, argv) with argv = <<key>> \o paths and at least one
\* path; the result has the lines printed
prp__g_work(db, key, normalized, nokey) ==
  GetLoop(db, key, normalized, 1, Len(normalized), nokey, <<>>)

\* the most paths one prop-get is given
MaxPaths == 2

\* the paths of one prop-get, normalized
PathLists == UNION {[1..n -> PropPaths] : n \in 1..MaxPaths}

\* fsvs prop-get key path..: one command of a process
PropGet ==
  \E key \in PropNames, normalized \in PathLists, nokey \in {"OK", "ENOENT"} :
    LET r == prp__g_work(prop_db, key, normalized, nokey)
    IN  /\ pc = "run"
        /\ output = <<>>
        /\ prop_db' = r.prop_db
        /\ output' = output \o r.printed
        /\ pc' = After(r.status)
        /\ call' = [op |-> "prop_get", status |-> r.status, key |-> key,
                    normalized |-> normalized, prop_db |-> prop_db,
                    printed |-> r.printed]
        /\ UNCHANGED <<ign_vars, entry>>

\* the property files a prop-get finds
InitProp ==
  /\ ignore_list = <<>>
  /\ used_ignore_entries = 0
  /\ max_ignore_entries = 0
  /\ waa_file = NoFile
  /\ pc = "run"
  /\ call = NoCall
  /\ entry = NoEstat
  /\ prop_db \in [PropPaths -> PropFiles]
  /\ output = <<>>

NextProp == PropGet

SpecProp == InitProp /\ [][NextProp]_vars

(***************************************************************************)
(* Bracket expressions: ign___translate_bracketed_expr on its own.         *)
(***************************************************************************)
\* the most characters behind the opening bracket
MaxBracket == 4

\* the characters a bracket expression is made of here
BracketChars == {"]", "!", "^", BSL, "a"}

\* the texts that start a bracket expression
BracketTexts ==
  {<<"[">> \o w : w \in UNION {[1..n -> BracketChars] : n \in 0..MaxBracket}}

\* ign___translate_bracketed_expr(buffer + len, &src, &dest) with src at the
\* start of the text and an empty buffer of the size ign__compile_pattern gives it
TranslateBracket ==
  /\ pc = "run"
  /\ call.op = "bracket"
  /\ call' = The({([op |-> "translate_bracketed_expr", status |-> r.status,
                    src |-> call.src, i |-> r.i, out |-> r.out])
                  : r \in {ign___translate_bracketed_expr(call.src, 1, <<>>,
                                                          Len(call.src) * 5 + 16)}})
  /\ UNCHANGED <<ign_vars, pc, wc>>

InitBracket ==
  /\ ignore_list = <<>>
  /\ used_ignore_entries = 0
  /\ max_ignore_entries = 0
  /\ waa_file = NoFile
  /\ pc = "run"
  /\ call \in {[op |-> "bracket", src |-> s] : s \in BracketTexts}
  /\ entry = NoEstat
  /\ prop_db = NoProps
  /\ output = <<>>

NextBracket == TranslateBracket

SpecBracket == InitBracket /\ [][NextBracket]_vars

(***************************************************************************)
(* The translation buffer: the PT_SHELL branch of ign__compile_pattern on  *)
(* its own.                                                                *)
(***************************************************************************)
\* the most characters behind the leading ./
MaxGlob == 3

\* the characters a shell pattern is made of here
GlobChars == {"*", "?", "[", "]", "!", BSL, "a", PATH_SEPARATOR}

\* the shell patterns, without modifiers: pattern and compare_string are the same
ShellTexts ==
  {<<".", PATH_SEPARATOR>> \o w : w \in UNION {[1..n -> GlobChars] : n \in 1..MaxGlob}}

\* the translation of the text by ign__compile_pattern, with the size of the
\* buffer it allocates
TranslatePattern ==
  /\ pc = "run"
  /\ call.op = "shell"
  /\ call' = The({([op |-> "compile_pattern", status |-> r.status, src |-> call.src,
                    len |-> Len(call.src) * 5 + 16, re |-> r.re])
                  : r \in {TranslateShell(call.src, Len(call.src))}})
  /\ UNCHANGED <<ign_vars, pc, wc>>

InitBuffer ==
  /\ ignore_list = <<>>
  /\ used_ignore_entries = 0
  /\ max_ignore_entries = 0
  /\ waa_file = NoFile
  /\ pc = "run"
  /\ call \in {[op |-> "shell", src |-> s] : s \in ShellTexts}
  /\ entry = NoEstat
  /\ prop_db = NoProps
  /\ output = <<>>

NextBuffer == TranslatePattern

SpecBuffer == InitBuffer /\ [][NextBuffer]_vars

(***************************************************************************)
(* Properties.                                                             *)
(***************************************************************************)
IsUser(r) == r.is_user_pat # 0
IsSys(r)  == r.is_user_pat = 0

\* the raw texts of the rules, and of the user rules, in list order
Texts(rules)     == [i \in 1..Len(rules) |-> rules[i].pattern]
UserTexts(rules) == Texts(SelectSeq(rules, IsUser))

\* 0-based index of the first user rule, the number of rules if there is none
FirstUserIndex(rules) ==
  IF \E i \in 1..Len(rules) : IsUser(rules[i])
    THEN (CHOOSE i \in 1..Len(rules) :
            IsUser(rules[i]) /\ \A j \in 1..(i - 1) : IsSys(rules[j])) - 1
    ELSE Len(rules)

\* number of rules up to the last built-in rule
LastSys(rules) ==
  IF \E i \in 1..Len(rules) : IsSys(rules[i])
    THEN CHOOSE i \in 1..Len(rules) :
           IsSys(rules[i]) /\ \A j \in (i + 1)..Len(rules) : IsUser(rules[j])
    ELSE 0

\* the rule matches the entry: it decides when it is the only rule
Matches(ign, sts) ==
  ign__is_ignore([list |-> <<ign>>, used |-> 1, max |-> 1], sts).is_ignored # 0

\* the sense of a rule: +1 ignore, -1 take
Sense(ign) == IF ign.is_ignore # 0 THEN 1 ELSE -1

\* the entry has a parent directory and a supported file type
Classifiable(sts) == ~sts.parent.null /\ sts.filetype # FT_IGNORE

\* the last call classified a classifiable entry
Classified == call.op = "is_ignore" /\ Classifiable(call.entry)

\* C1: ign__is_ignore returns the sense of the lowest-index rule that matches
\* the entry, and unclassified (0) exactly when no rule of the list matches.
C1_FirstMatchDecides ==
  Classified =>
    /\ call.status = "OK"
    /\ IF \E i \in 1..Len(call.pre) : Matches(call.pre[i], call.entry)
         THEN LET k == CHOOSE i \in 1..Len(call.pre) :
                         /\ Matches(call.pre[i], call.entry)
                         /\ \A j \in 1..(i - 1) : ~Matches(call.pre[j], call.entry)
              IN  call.is_ignored = Sense(call.pre[k])
         ELSE call.is_ignored = 0

\* C2 as stated: ./keep.txt is taken under [./**, t./keep.txt] and under
\* [t./keep.txt, ./**].
C2_TakenInBothOrders ==
  (Classified /\ call.entry.path = P_keep
     /\ Texts(call.pre) \in {<<T_ww, T_keep>>, <<T_keep, T_ww>>})
    => call.is_ignored = -1

\* C2: the first matching rule decides: ./keep.txt is ignored under
\* [./**, t./keep.txt] and taken under [t./keep.txt, ./**].
C2_FirstOfTheTwoDecides ==
  (Classified /\ call.entry.path = P_keep)
    => /\ Texts(call.pre) = <<T_ww, T_keep>> => call.is_ignored = 1
       /\ Texts(call.pre) = <<T_keep, T_ww>> => call.is_ignored = -1

C2_Witness ==
  /\ Classified /\ call.entry.path = P_keep
  /\ Texts(call.pre) = <<T_ww, T_keep>>
  /\ call.is_ignored = 1

EmptyMem == [list |-> <<>>, used |-> 0, max |-> 0]

\* the memory of a process that holds the built-in rules of rules only
OnlySys(rules) ==
  LET sys == SelectSeq(rules, IsSys)
  IN  IF sys = <<>> THEN EmptyMem
      ELSE ign__new_pattern(EmptyMem, Len(sys), Texts(sys), 0, 0,
                            PATTERN_POSITION_END).L

\* C3: loading what ign__save_ignorelist writes for a list, into a list that
\* holds the same built-in rules, gives the same user rule texts in the same
\* order, and the built-in rules stay as they are.
C3_SaveLoadRoundTrip ==
  pc = "run" =>
    LET r == ign__load_list(OnlySys(Rules(Mem)), ign__save_ignorelist(Mem))
    IN  /\ r.status = "OK"
        /\ UserTexts(Rules(r.L)) = UserTexts(Rules(Mem))
        /\ Texts(SelectSeq(Rules(r.L), IsSys)) = Texts(SelectSeq(Rules(Mem), IsSys))

\* a process has loaded the file a process before it saved, with two user
\* rules and next to a built-in rule
C3_Witness ==
  /\ call.op = "load" /\ call.status = "OK"
  /\ call.file \notin FileInputs \cup {NoFile}
  /\ call.file = ign__save_ignorelist(Mem)
  /\ UserTexts(Rules(Mem)) = <<T_a, T_tb>>
  /\ Texts(call.pre) = <<T_sys>>

\* C4: no user rule has a lower index than a built-in rule.
C4_SysRulesArePrefix ==
  pc = "run" =>
    \A i \in 1..used_ignore_entries, j \in 1..used_ignore_entries :
      (i < j /\ IsUser(ignore_list[i])) => IsUser(ignore_list[j])

\* "fsvs ignore at=k" got past the load with k above the number of user rules
IndexBeyondUserRules ==
  /\ call.op = "ign_work" /\ call.lstatus = "OK" /\ call.at
  /\ call.position > Len(SelectSeq(call.loaded, IsUser))

\* C5: an insert at an index above the number of user rules is rejected with
\* EINVAL and leaves the list as it was loaded.
C5_IndexBeyondIsRejected ==
  IndexBeyondUserRules => (call.status = "EINVAL" /\ Rules(Mem) = call.loaded)

\* the last call inserted rules at Index(k), 0 <= k <= number of user rules
InsertedAtIndex ==
  /\ call.op = "new_pattern" /\ call.status = "OK"
  /\ call.position >= 0
  /\ call.position <= Len(SelectSeq(call.pre, IsUser))

\* C6: an insert at Index(k) puts the new rules, in their order, at the
\* indices [b+k, b+k+count), b the index of the first user rule; rules below
\* b+k stay, rules from b+k on move up by count.
C6_InsertAtIndex ==
  InsertedAtIndex =>
    LET at    == FirstUserIndex(call.pre) + call.position
        count == Len(call.pattern)
        post  == Rules(Mem)
    IN  /\ Len(post) = Len(call.pre) + count
        /\ \A j \in 1..Len(call.pre) :
             post[IF j <= at THEN j ELSE j + count] = call.pre[j]
        /\ \A n \in 1..count :
             /\ post[at + n].pattern = call.pattern[n]
             /\ post[at + n].is_user_pat = call.user_pattern

\* one rule went between the two user rules of a list with a built-in rule
C6_Witness ==
  /\ InsertedAtIndex
  /\ call.position = 1
  /\ Texts(call.pre) = <<T_sys, T_a, T_tb>>
  /\ IsSys(call.pre[1]) /\ IsUser(call.pre[2])
  /\ Texts(Rules(Mem)) = <<T_sys, T_a, T_a, T_tb>>

\* C7: an insert at PATTERN_POSITION_START puts the new rules directly behind
\* the last built-in rule and before every user rule, and no built-in rule
\* changes its index.
C7_StartIsBehindSysRules ==
  (call.op = "new_pattern" /\ call.status = "OK"
     /\ call.position = PATTERN_POSITION_START) =>
    LET last  == LastSys(call.pre)
        count == Len(call.pattern)
        post  == Rules(Mem)
    IN  /\ Len(post) = Len(call.pre) + count
        /\ \A n \in 1..count : post[last + n].pattern = call.pattern[n]
        /\ \A j \in 1..Len(call.pre) :
             IF IsSys(call.pre[j]) THEN post[j] = call.pre[j]
             ELSE \E m \in (last + count + 1)..Len(post) : post[m] = call.pre[j]

\* the header of a file: the bytes before the first newline, all of the file
\* if it has none
HeaderText(file) ==
  IF strchr(file, 1, LF) = 0 THEN file ELSE SubSeq(file, 1, strchr(file, 1, LF) - 1)

IsDecimal(h) == h # <<>> /\ \A i \in 1..Len(h) : IsDigit(h[i])

\* the NUL-terminated strings of a file body, the newline behind a NUL left out
RECURSIVE StringsIn(_)
StringsIn(body) ==
  IF At(body, 1) = LF THEN StringsIn(Tail(body))
  ELSE IF \E k \in 1..Len(body) : body[k] = NUL
    THEN LET k == CHOOSE k \in 1..Len(body) :
                    body[k] = NUL /\ \A j \in 1..(k - 1) : body[j] # NUL
         IN  <<SubSeq(body, 1, k - 1)>> \o StringsIn(From(body, k + 1))
    ELSE <<>>

\* the strings behind the header of a file
FileStrings(file) ==
  IF strchr(file, 1, LF) = 0 THEN <<>>
  ELSE StringsIn(From(file, strchr(file, 1, LF) + 1))

\* the text is a rule the compiler accepts
Compiles(text) == ign___init_pattern_into(text, 0, UninitIgnore).status = "OK"

\* the last call loaded a file whose header is a decimal count above the
\* number of strings in the file, all of them rules
LoadedShortFile ==
  /\ call.op = "load" /\ call.file # NoFile
  /\ strchr(call.file, 1, LF) # 0
  /\ IsDecimal(HeaderText(call.file))
  /\ ParseDigits(HeaderText(call.file), 1, 10, 0).val > Len(FileStrings(call.file))
  /\ \A i \in 1..Len(FileStrings(call.file)) : Compiles(FileStrings(call.file)[i])

\* C8: a header count above the number of strings in the file is no error:
\* the load succeeds and appends the strings that are there.
C8_ShortFileLoads ==
  LoadedShortFile =>
    /\ call.status = "OK"
    /\ Texts(Rules(Mem)) = Texts(call.pre) \o FileStrings(call.file)

\* C9: a file whose header is no decimal count, or has no newline behind it,
\* is rejected with EINVAL.
C9_MalformedHeaderIsRejected ==
  (call.op = "load" /\ call.file # NoFile
     /\ (strchr(call.file, 1, LF) = 0 \/ ~IsDecimal(HeaderText(call.file))))
    => call.status = "EINVAL"

\* the last call loaded a file with a string, among those the header counts,
\* that the compiler rejects
LoadedBadRule ==
  /\ call.op = "load" /\ call.file # NoFile
  /\ strchr(call.file, 1, LF) # 0
  /\ IsDecimal(HeaderText(call.file))
  /\ \E i \in 1..Len(FileStrings(call.file)) :
       /\ i <= ParseDigits(HeaderText(call.file), 1, 10, 0).val
       /\ ~Compiles(FileStrings(call.file)[i])

\* C10: a load that meets a rule the compiler rejects returns an error, ends
\* the process and leaves none of the rules of the file in the list.
C10_FailedLoadLeavesNoRule ==
  LoadedBadRule =>
    /\ call.status # "OK"
    /\ pc = "failed"
    /\ \A i \in 1..used_ignore_entries :
         ignore_list[i].pattern \notin Range(FileStrings(call.file))

\* the rejected rule came second, behind one that was compiled and appended
C10_Witness ==
  /\ LoadedBadRule
  /\ FileStrings(call.file) = <<T_a, T_bad>>
  /\ Texts(call.pre) = <<T_sys>>

\* the texts, each followed by NUL and a newline
RECURSIVE Records(_)
Records(texts) ==
  IF texts = <<>> THEN <<>> ELSE Head(texts) \o <<NUL, LF>> \o Records(Tail(texts))

\* C11: the file ign__save_ignorelist writes is the decimal number of user
\* rules, a newline, and the texts of the user rules in list order, each
\* followed by NUL and a newline; built-in rules are neither counted nor written.
C11_SaveWritesUserRules ==
  call.op = "save" =>
    /\ strchr(call.file, 1, LF) # 0
    /\ IsDecimal(HeaderText(call.file))
    /\ ParseDigits(HeaderText(call.file), 1, 10, 0).val
         = Len(SelectSeq(call.pre, IsUser))
    /\ From(call.file, strchr(call.file, 1, LF) + 1) = Records(UserTexts(call.pre))
    /\ waa_file = call.file

\* a list with a built-in rule before two user rules was saved
C11_Witness ==
  /\ call.op = "save"
  /\ Texts(call.pre) = <<T_sys, T_a, T_tb>>
  /\ IsSys(call.pre[1]) /\ IsUser(call.pre[2]) /\ IsUser(call.pre[3])
  /\ call.file = <<"2", LF>> \o T_a \o <<NUL, LF>> \o T_tb \o <<NUL, LF>>

\* C12: an entry with a parent directory whose file type is FT_IGNORE is
\* classified ignored (+1) without an error, whatever rules the list holds.
C12_UnsupportedTypeIsIgnored ==
  (call.op = "is_ignore" /\ ~call.entry.parent.null
     /\ call.entry.filetype = FT_IGNORE)
    => (call.status = "OK" /\ call.is_ignored = 1)

\* the first rule is a take rule that matches the entry when its file type is
\* a supported one
C12_Witness ==
  /\ call.op = "is_ignore" /\ ~call.entry.parent.null
  /\ call.entry.filetype = FT_IGNORE
  /\ Len(call.pre) >= 1
  /\ call.pre[1].is_ignore = 0
  /\ Matches(call.pre[1], [call.entry EXCEPT !.filetype = "FT_FILE"])
  /\ call.is_ignored = 1

\* the index behind the leading mode characters t and i of a rule text
RECURSIVE SkipModes(_, _)
SkipModes(text, k) == IF At(text, k) \in {"t", "i"} THEN SkipModes(text, k + 1) ELSE k

\* the shell pattern of a rule text: the text behind its mode characters
GlobOf(text) == From(text, SkipModes(text, 1))

\* a shell pattern rule without a wildcard
NoWildcard(ign) ==
  /\ ign.type = PT_SHELL
  /\ \A k \in 1..Len(ign.pattern) : ign.pattern[k] \notin {"*", "?", "[", BSL}

\* the path a shell pattern without wildcard names: the pattern, without a
\* path separator at its end
LiteralPath(ign) ==
  LET g == GlobOf(ign.pattern)
  IN  IF g[Len(g)] = PATH_SEPARATOR THEN SubSeq(g, 1, Len(g) - 1) ELSE g

\* s begins with the sequence prefix
StartsWith(s, prefix) ==
  Len(s) >= Len(prefix) /\ SubSeq(s, 1, Len(prefix)) = prefix

\* C13: a shell pattern rule without wildcard matches an entry exactly if the
\* path of the entry is the literal path of the rule.
C13_LiteralMatchesOnlyItself ==
  Classified =>
    \A i \in 1..Len(call.pre) :
      NoWildcard(call.pre[i]) =>
        (Matches(call.pre[i], call.entry) <=> call.entry.path = LiteralPath(call.pre[i]))

\* C14: ./a/ matches ./a and does not match ./ab; under [t./a/mnt, ./a/] the
\* entry ./a/mnt is taken and no other entry below ./a is taken.
C14_TrailingSeparator ==
  Classified =>
    /\ \A i \in 1..Len(call.pre) :
         call.pre[i].pattern = G_as =>
           /\ call.entry.path = P_a => Matches(call.pre[i], call.entry)
           /\ call.entry.path = P_ab => ~Matches(call.pre[i], call.entry)
    /\ Texts(call.pre) = <<G_tm, G_as>> =>
         /\ call.entry.path = P_a_m => call.is_ignored = -1
         /\ (call.entry.path # P_a_m /\ StartsWith(call.entry.path, G_as))
              => call.is_ignored # -1

C16_StarStarIsUnbounded ==
  Classified =>
    \A i \in 1..Len(call.pre) :
      LET ign == call.pre[i]
      IN  /\ ign.pattern \in {G_ss, G_sss} =>
               /\ ign.compare_string = <<BSL, ".", "/", "a", "/", ".", "*", "$">>
               /\ ign.has_wildwildcard = 1
               /\ Matches(ign, call.entry) <=> StartsWith(call.entry.path, G_as)
          /\ (ign.type = PT_SHELL /\ ign.pattern \notin {G_ss, G_sss}) =>
               ign.has_wildwildcard = 0

\* ./a/b/c/d was matched by ./a/***
C16_Witness ==
  /\ Classified
  /\ Texts(call.pre) = <<G_sss>>
  /\ call.entry.path = P_abcd
  /\ call.is_ignored = 1

\* the index of a rule text behind its leading white space and mode characters
BodyAt(text) == SkipModes(text, SkipSpace(text, 1))

\* the type the prefix of a rule text stands for, checked in the order
\* DEVICE:, INODE:, PCRE:, ./ ; "none" if the text has none of them
TypeByPrefix(text) ==
  IF HasPrefixAt(text, BodyAt(text), dev_prefix) THEN PT_DEVICE
  ELSE IF HasPrefixAt(text, BodyAt(text), inode_prefix) THEN PT_INODE
  ELSE IF HasPrefixAt(text, BodyAt(text), pcre_prefix) THEN PT_PCRE
  ELSE IF HasPrefixAt(text, BodyAt(text), norm_prefix) THEN PT_SHELL
  ELSE "none"

\* the last call was ign__new_pattern with one rule text, appended
ParsedOneText ==
  /\ call.op = "new_pattern" /\ Len(call.pattern) = 1
  /\ call.position = PATTERN_POSITION_END

\* C17: a rule text that is accepted gets the type of its prefix behind the
\* leading white space and mode characters; a text with none of the prefixes
\* there, a text that ends there included, is rejected with EINVAL, ends the
\* process and adds no rule.
C17_ClassifiedByPrefix ==
  ParsedOneText =>
    LET text == call.pattern[1]
    IN  /\ call.status = "OK" =>
             /\ Len(Rules(Mem)) = Len(call.pre) + 1
             /\ Rules(Mem)[Len(call.pre) + 1].type = TypeByPrefix(text)
        /\ TypeByPrefix(text) = "none" =>
             /\ call.status = "EINVAL"
             /\ pc = "failed"
             /\ Rules(Mem) = call.pre

\* "XYZ:foo" was rejected behind the rule ti./a, which was accepted as a
\* shell pattern
C17_Witness ==
  /\ ParsedOneText
  /\ call.pattern[1] = T_bad /\ call.status = "EINVAL"
  /\ Texts(call.pre) = <<X_ti_a>>
  /\ call.pre[1].type = PT_SHELL

\* the device a DEVICE rule is to be compared with: the parent directory's
\* for a directory, the entry's own for everything else
ComparedDev(sts) == IF sts.st.isdir THEN sts.parent.st.dev ELSE sts.st.dev

\* C18: DEVICE:3 matches exactly the devices with major 3, DEVICE:<3 exactly
\* those with a major below 3, DEVICE:3:1 exactly major 3 with minor 1.
C18_DeviceComparison ==
  Classified =>
    \A i \in 1..Len(call.pre) :
      LET ign == call.pre[i]
          dev == ComparedDev(call.entry)
      IN  /\ ign.pattern = D_3 => (Matches(ign, call.entry) <=> dev[1] = 3)
          /\ ign.pattern = D_lt3 => (Matches(ign, call.entry) <=> dev[1] < 3)
          /\ ign.pattern = D_3_1 => (Matches(ign, call.entry) <=> dev = <<3, 1>>)

\* a file on device 3:2 was ignored by DEVICE:3 behind DEVICE:3:1, which did
\* not match it
C18_Witness ==
  /\ Classified
  /\ Texts(call.pre) = <<D_3_1, D_3>>
  /\ ~call.entry.st.isdir /\ call.entry.st.dev = <<3, 2>>
  /\ ~Matches(call.pre[1], call.entry)
  /\ call.is_ignored = 1

\* C19: a DEVICE rule matches a directory exactly if it matches a file on the
\* device of the directory's parent, whatever the directory's own device is;
\* it matches any other entry exactly if it matches a file on the entry's own
\* device, whatever the parent's device is.
C19_DirectoryUsesParentDevice ==
  Classified =>
    \A i \in 1..Len(call.pre) :
      call.pre[i].type = PT_DEVICE =>
        LET dev == IF call.entry.st.isdir THEN call.entry.parent.st.dev
                   ELSE call.entry.st.dev
        IN  Matches(call.pre[i], call.entry)
              <=> Matches(call.pre[i], File(call.entry.path, dev, dev))

\* a mount point on device 3:1 in a directory on device 2:0 was not matched
\* by DEVICE:3
C19_Witness ==
  /\ Classified
  /\ Texts(call.pre) = <<D_3>>
  /\ call.entry.st.isdir
  /\ call.entry.st.dev = <<3, 1>> /\ call.entry.parent.st.dev = <<2, 0>>
  /\ call.is_ignored = 0

\* C20: for every rule list and every entry, the evaluator on the active list of
\* the entry's directory, derived down the tree by the level and
\* has_wildwildcard test of ign___do_parent_list, gives what the evaluator
\* gives on the whole list in list order.
C20_ViewAgreesWithFullList ==
  call.op = "view_is_ignore" =>
    call.is_ignored
      = ign__is_ignore([list |-> call.pre, used |-> Len(call.pre),
                        max |-> Len(call.pre)], call.entry).is_ignored

\* the rules of the list that take admits for the level, in list order
RECURSIVE Taken(_, _)
Taken(source, path_level) ==
  IF source = <<>> THEN <<>>
  ELSE (IF take(Head(source), path_level) THEN <<Head(source)>> ELSE <<>>)
       \o Taken(Tail(source), path_level)

Pair(a, b) ==
  /\ call.op = "au_action" /\ call.status = "OK" /\ call.i_val = {b}
  /\ call.prev.op = "au_action" /\ call.prev.status = "OK" /\ call.prev.i_val = {a}

\* the entry is as the claim has it after a pair of calls
Cancelled ==
  IF entry.repos_rev = 0 THEN ~entry.in_list
  ELSE entry.in_list /\ entry.flags \cap {RF_ADD, RF_UNVERSION} = {}

C30_NeverBothFlags ==
  (call.op = "au_action" /\ call.i_val \in {{RF_ADD}, {RF_UNVERSION}}) =>
    /\ ~({RF_ADD, RF_UNVERSION} \subseteq entry.flags)
    /\ entry.flags \ {RF_ADD, RF_UNVERSION}
         = call.start.flags \ {RF_ADD, RF_UNVERSION}

\* the second call on an entry that had both flags and another one set
C30_Witness ==
  /\ call.op = "au_action" /\ call.prev.op = "au_action"
  /\ call.i_val = {RF_UNVERSION}
  /\ call.start.flags = {RF_ADD, RF_UNVERSION, RF_CHECK}
  /\ entry.flags \cap {RF_ADD, RF_UNVERSION} # {}

\* the values stored under the name for the paths, in the order of the paths
RECURSIVE Stored(_, _, _)
Stored(db, key, paths) ==
  IF paths = <<>> THEN <<>>
  ELSE (IF db[Head(paths)].props[key] # None
          THEN <<db[Head(paths)].props[key]>> ELSE <<>>)
       \o Stored(db, key, Tail(paths))

\* C23: prop-get with a property name and the paths P1..Pn prints, for each i in
\* the order of the arguments, the value stored under the name for Pi, and
\* nothing for a path without such a property; what is printed for Pi never
\* comes from the property file of another path.
C23_PrintsEachPathsValue ==
  (call.op = "prop_get" /\ call.status = "OK") =>
    call.printed = Stored(call.prop_db, call.key, call.normalized)

\* the content of a bracket expression from s[i] on, n content characters
\* being consumed: a ] closes once there is content, the character behind a
\* backslash is content whatever it is, everything is copied as it is
RECURSIVE BracketContent(_, _, _, _)
BracketContent(s, i, out, n) ==
  IF At(s, i) = NUL THEN [i |-> i, out |-> out]
  ELSE IF At(s, i) = "]" /\ n > 0 THEN [i |-> i + 1, out |-> Append(out, "]")]
  ELSE IF At(s, i) = BSL /\ At(s, i + 1) # NUL
    THEN BracketContent(s, i + 2, out \o <<BSL, At(s, i + 1)>>, n + 1)
  ELSE BracketContent(s, i + 1, Append(out, At(s, i)), n + 1)

\* the translation of the bracket expression at the start of s: the opening
\* bracket, ^ for a leading ! or ^, and the content
BracketExpr(s) ==
  IF At(s, 2) \in {"!", "^"} THEN BracketContent(s, 3, <<"[", "^">>, 0)
  ELSE BracketContent(s, 2, <<"[">>, 0)

\* C25: in the translation of a bracket expression a ] closes the expression
\* only if a content character has been consumed and the ] is not behind a
\* backslash; a ] directly behind [ or behind a leading ! or ^, and a ] behind a
\* backslash, are content; a leading ! or ^ becomes ^ and is no content; every
\* other character is copied as it is.
C25_BracketTranslation ==
  call.op = "translate_bracketed_expr" =>
    /\ call.status = "OK"
    /\ call.out = BracketExpr(call.src).out
    /\ call.i = BracketExpr(call.src).i

\* C24: every DEVICE rule the compiler has accepted carries one of the five
\* comparators <, <=, =, >=, > (= when none is written), so that the evaluator
\* takes one of its five comparison cases for it.
C24_FiveComparators ==
  \A k \in 1..used_ignore_entries :
    ignore_list[k].type = PT_DEVICE =>
      ignore_list[k].compare \in
        {PAT_DEV__LESS, PAT_DEV__LESS + PAT_DEV__EQUAL, PAT_DEV__EQUAL,
         PAT_DEV__EQUAL + PAT_DEV__GREATER, PAT_DEV__GREATER}

\* C26: when a pattern of the batch given to ign__new_pattern does not
\* compile, the call returns an error and the rule list is as before the call,
\* the same number of rules and the same rule at every index, for the
\* positions end, start and index k and wherever the pattern is in the batch.
C26_FailedInsertLeavesList ==
  (call.op = "new_pattern" /\ call.status = "EINVAL") =>
    /\ used_ignore_entries = Len(call.pre)
    /\ Rules(Mem) = call.pre

\* C27: an entry without a parent, the root of the tree, is returned as
\* unclassified by ign__is_ignore whatever the rule list holds: no rule is
\* tested against it and its file type is not looked at.
C27_RootIsUnclassified ==
  (call.op = "is_ignore" /\ call.entry.parent.null) =>
    call.is_ignored = 0 /\ call.status = "OK"

\* the root classified against two rules
C27_Witness ==
  /\ call.op = "is_ignore" /\ call.entry.parent.null
  /\ call.entry.path = <<".">>
  /\ Len(call.pre) = 2
  /\ call.is_ignored = 0

\* C28: whenever ign__load_list returns an error the rule count is zero
\* afterwards: the rules the list held before the load, built-in rules
\* included, are dropped together with the rules read from the file.
C28_FailedLoadEmptiesList ==
  (call.op = "load" /\ call.status # "OK") =>
    used_ignore_entries = 0 /\ Rules(Mem) = <<>>

\* a load that failed on a list holding a built-in rule
C28_Witness ==
  /\ call.op = "load" /\ call.status = "EINVAL"
  /\ Len(call.pre) = 1 /\ call.pre[1].is_user_pat = 0
  /\ used_ignore_entries = 0

\* C29: for every shell pattern the translation does not fail with ENOSPC,
\* that is 11 bytes are free after every step outside a bracket expression and
\* 5 inside one, and the translated pattern with its end anchor and the
\* closing NUL is within the buffer of 5 * strlen(pattern) + 16 bytes.
C29_BufferSuffices ==
  call.op = "compile_pattern" =>
    /\ call.status # "ENOSPC"
    /\ Len(call.re) + 1 <= call.len

\* the pattern with two stars, five characters in the buffer for each
C29_Witness ==
  /\ call.op = "compile_pattern"
  /\ call.src = <<".", PATH_SEPARATOR, "*", "a", "*">>
  /\ call.status = "OK"
  /\ Len(call.re) = 15

====
